---- MODULE Spec2Model ----
(***************************************************************************)
(* Model of the compozor process engine (src/jest.config.js holds the      *)
(* engine: compose, validatePipeline, start and its step loop).            *)
(*                                                                         *)
(* Objects are modelled with identity: `data` and `context` are references *)
(* into a heap, because aggregateResult re-binds the closure variables to  *)
(* fresh objects while processors keep the references they were handed.    *)
(* An object is a function from its present keys to values; a value is the *)
(* name of the processor that wrote it (StarterVal for the caller's key).  *)
(*                                                                         *)
(* Environment: what a processor may throw is the variable `throwables`,   *)
(* fixed by the initial condition of each specification.  In Spec the      *)
(* processors throw Error objects; SpecNullish adds rejections with a      *)
(* nullish reason.  The logging collaborator does not throw.               *)
(***************************************************************************)
EXTENDS Integers, Sequences, FiniteSets, Bags, TLC

\* ---------------------------------------------------------------- bounds
MaxProcs == 3      \* processors in a pipeline, named 1..MaxProcs
MaxGroup == 2      \* members of a parallel group
MaxPrereqs == 2    \* prerequisites declared in a pipeline, all processors together
StarterVal == 0    \* the value of the caller's `starter` key

ProcessorNames == 1..MaxProcs
\* a prerequisite may name a processor, or 0: the name of no processor
PrereqNames == 0..MaxProcs
Keys == {"k1", "k2"}
EmptyObj == [k \in {} |-> 0]

VARIABLES
    processors,       \* the step list: a sequence of steps, each a sequence of names
    prerequisites,    \* processor name -> its declared prerequisites (sequence)
    invalidConfigs,   \* configuration errors recorded by compose
    runState,         \* "idle", "running", "resolved", "rejected"
    continueOnError,  \* argument of the current start call
    startingContext,  \* argument of the current start call (the caller's object)
    i,                \* index of the step loop (1-based)
    awaiting,         \* TRUE while the loop is suspended at await Promise.all
    data, context,    \* the closure variables: references into the heaps
    dataHeap, ctxHeap,\* object id -> object contents
    errors,           \* the context.errors array
    processorsRun,    \* the processorsRun array
    pc,               \* processor name -> position of its promise chain
    held,             \* processor name -> what its pending call holds
    outcome,          \* what the last start call settled with (in SpecErrors:
                      \* what the last call of errors.js returned)
    processCalls,     \* history: processor name -> process invocations in the current step
    runIfCalls,       \* history: processor name -> runIf invocations in the current step
    foldData, foldCtx,\* history: the effects of the settled processors, folded
    inPlaceOnly,      \* history: key -> its only writer so far is a group member
                      \* that wrote it in place and returned nothing
    throwables,       \* environment: the kinds of value a processor may throw
    kinds,            \* environment: what a process function may do
    cookieValues,     \* environment: the values processors give their cookies
    cookieOptions,    \* the cookieOptions given to compose
    responseSupportsCookies, \* environment: res has cookie and clearCookie
    cookieSlot,       \* data object id -> its `cookies` property
    jars,             \* jar id -> the plain object: cookie name -> value
    cookieCalls,      \* the cookie(...) and clearCookie(...) calls made on res
    log,              \* the calls of logging.error since the last call of start
    entry,            \* the facade function the caller used: "start", "send",
                      \* "fireAndForget", "register"
    wrapper,          \* the promise of send / fireAndForget: "idle" (none),
                      \* "pending", "resolved", "rejected"
    response,         \* the status(...).send(...) calls made on res, in order
    suspended,        \* the closure variables of the other invocation of start,
                      \* which is suspended at an await or has returned
    composed          \* the calls of compose: `self`, the facade whose functions
                      \* the module's `this` carries (its closure is held by
                      \* processors, prerequisites, invalidConfigs); `shelved`,
                      \* the step lists of the other facades; `called`, the
                      \* facade register was last called on (0: none)

vars == <<processors, prerequisites, invalidConfigs, runState, continueOnError,
          startingContext, i, awaiting, data, context, dataHeap, ctxHeap, errors,
          processorsRun, pc, held, outcome, processCalls, runIfCalls,
          foldData, foldCtx, inPlaceOnly, throwables, log, entry, wrapper,
          response, kinds, cookieValues, cookieOptions,
          responseSupportsCookies, cookieSlot, jars, cookieCalls, suspended,
          composed>>

environment == <<throwables, kinds, cookieValues, cookieOptions,
                 responseSupportsCookies>>

caller == <<entry, wrapper, response, cookieCalls>>

cookieVars == <<cookieSlot, jars>>

history == <<foldData, foldCtx, inPlaceOnly>>

facade == <<processors, prerequisites, invalidConfigs>>

\* ------------------------------------------------------------- helpers
Range(a, b) == [j \in 1..(b - a + 1) |-> a + j - 1]

SeqToSet(s) == {s[j] : j \in DOMAIN s}

\* {...a, ...b}
Spread(a, b) ==
    [k \in (DOMAIN a) \cup (DOMAIN b) |-> IF k \in DOMAIN b THEN b[k] ELSE a[k]]

\* obj[k] = v, in place
Assign(obj, k, v) == Spread(obj, [kk \in {k} |-> v])

\* processors.flat(): the names of the step list in order
RECURSIVE Flat(_)
Flat(steps) == IF steps = <<>> THEN <<>> ELSE Head(steps) \o Flat(Tail(steps))

StepOf(p) ==
    CHOOSE j \in DOMAIN processors : \E k \in DOMAIN processors[j] : processors[j][k] = p

\* --------------------------------------------------- compose: validation
\* validatePrerequisites: the declared prerequisites that are not loaded
MissingPrereqs(prereqs, loaded) ==
    SelectSeq(prereqs, LAMBDA q : q \notin loaded)

RECURSIVE ValidatePipelineGroupLoaded(_, _, _)
ValidatePipelineGroupLoaded(steps, prereqs, allLoaded) ==
    IF steps = <<>> THEN <<>>
    ELSE LET step == Head(steps)
             loaded == allLoaded \cup SeqToSet(step)
             bad == SelectSeq(step,
                       LAMBDA p : MissingPrereqs(prereqs[p], loaded) # <<>>)
             found == [j \in DOMAIN bad |->
                         [processorName |-> bad[j],
                          reason |-> MissingPrereqs(prereqs[bad[j]], loaded)]]
         IN found \o ValidatePipelineGroupLoaded(Tail(steps), prereqs, loaded)

\* validatePipeline over the step list: `allLoaded` is the set of names of
\* strictly earlier steps; members of a group are pushed only after the group
RECURSIVE ValidatePipeline(_, _, _)
ValidatePipeline(steps, prereqs, allLoaded) ==
    IF steps = <<>> THEN <<>>
    ELSE LET step == Head(steps)
             bad == SelectSeq(step,
                       LAMBDA p : MissingPrereqs(prereqs[p], allLoaded) # <<>>)
             found == [j \in DOMAIN bad |->
                         [processorName |-> bad[j],
                          reason |-> MissingPrereqs(prereqs[bad[j]], allLoaded)]]
         IN found \o ValidatePipeline(Tail(steps), prereqs,
                                      allLoaded \cup SeqToSet(step))

\* the step lists compose can be given: the names 1..n in order, cut into steps
Steps == {Range(a, b) : a \in ProcessorNames, b \in ProcessorNames} \cap
             UNION {[1..m -> ProcessorNames] : m \in 1..MaxGroup}
Pipelines ==
    {s \in UNION {[1..m -> Steps] : m \in 1..MaxProcs} :
        /\ s[1][1] = 1
        /\ \A j \in 1..(Len(s) - 1) : s[j + 1][1] = s[j][Len(s[j])] + 1}

\* prerequisite arrays: up to MaxPrereqs distinct names, in increasing order
PrereqLists ==
    {q \in UNION {[1..m -> PrereqNames] : m \in 0..MaxPrereqs} :
        \A j \in 1..(Len(q) - 1) : q[j] < q[j + 1]}

\* the number of prerequisites the processors `names` declare
RECURSIVE Declared(_, _)
Declared(prereqs, names) ==
    IF names = <<>> THEN 0
    ELSE Len(prereqs[Head(names)]) + Declared(prereqs, Tail(names))

\* one call of logging.error: the source line of the call and the processor
\* it is about (0: the process as a whole)
LogEntry(line, about) == [line |-> line, about |-> about]

\* the log after n more calls
Logged(bag, call, n) == IF n = 0 THEN bag ELSE bag (+) [e \in {call} |-> n]

\* a string or payload supplied by processor p (0: by the engine): what it
\* is stands for its text
Text(p, what) == [of |-> p, what |-> what]
Undefined == Text(0, "undefined")
MessageOf(p) == Text(p, "message")

\* an error object: its message, its class, its responseInfo and doNotLog
ErrorObj(message, type, responseInfo, doNotLog) ==
    [message |-> message, type |-> type, responseInfo |-> responseInfo,
     doNotLog |-> doNotLog]

NoResponseInfo == [text |-> Undefined, errors |-> Undefined, statusCode |-> 0]
NoEx == ErrorObj(Undefined, "none", NoResponseInfo, FALSE)

\* the number parseInt gives for a missing or non-numeric status code
NaN == 0 - 1

ProcessorErrorDefaultsOnNaNOnly(message, responseInfo) ==
    LET parsed == responseInfo.statusCode
        statusCode == IF parsed = NaN THEN 500 ELSE parsed
    IN ErrorObj(message, "ProcessorError",
                [responseInfo EXCEPT !.statusCode = statusCode],
                statusCode < 500)

\* new ProcessorError(message, responseInfo) (errors.js lines 89-104)
ProcessorError(message, responseInfo) ==
    LET parsed == responseInfo.statusCode
        statusCode == IF parsed = NaN \/ parsed <= 0 THEN 500 ELSE parsed
    IN ErrorObj(message, "ProcessorError",
                [responseInfo EXCEPT !.statusCode = statusCode],
                statusCode < 500)

\* the value processor p throws, by kind: `throw new Error(...)`, an error
\* with isEpiError, a ProcessorError with a status code, a string
\* (throw 'text', reject('text')), or a rejection without a reason
\* (Promise.reject(), throw undefined, throw null)
Thrown(p, kind) ==
    CASE kind = "Error" -> ErrorObj(MessageOf(p), "Error", NoResponseInfo, FALSE)
      [] kind = "EpiError" -> ErrorObj(MessageOf(p), "EpiError", NoResponseInfo, FALSE)
      [] kind = "400" ->
            ProcessorError(MessageOf(p), [text |-> Text(p, "text"),
                                          errors |-> Text(p, "errors"),
                                          statusCode |-> 400])
      [] kind = "550" ->
            ProcessorError(MessageOf(p), [text |-> Undefined,
                                          errors |-> Undefined,
                                          statusCode |-> 550])
      [] kind = "NaN" ->
            ProcessorError(MessageOf(p), [text |-> Undefined,
                                          errors |-> Text(p, "errors"),
                                          statusCode |-> NaN])
      [] kind = "string" -> ErrorObj(Undefined, "string", NoResponseInfo, FALSE)
      [] kind = "TypeError" ->
            ErrorObj(MessageOf(p), "TypeError", NoResponseInfo, FALSE)
      [] OTHER -> ErrorObj(Undefined, "nullish", NoResponseInfo, FALSE)

\* ------------------------------------------------------------- cookies
\* the `cookies` property of a data object: a plain object (a jar, by its
\* number), or what it is instead: "undefined" (deleted), "null", "array",
\* "date", "primitive"
\* (a slot is a number: that of the jar, or a negative one for what is no jar)
Jar(n) == n
NotAJar(what) ==
    CASE what = "undefined" -> 0 - 1
      [] what = "null" -> 0 - 2
      [] what = "array" -> 0 - 3
      [] what = "date" -> 0 - 4
      [] OTHER -> 0 - 5
IsA(slot, what) == slot = NotAJar(what)

IsTypeofObject(slot) ==
    slot >= 0 \/ IsA(slot, "null") \/ IsA(slot, "array") \/ IsA(slot, "date")

\* the condition of line 185
IsPlainObject(slot) == slot >= 0

\* what a process function may do to data.cookies: set the cookie it names,
\* delete data.cookies, or replace it by null, an array, a Date, a number
CookieKinds == {"setCookie", "deleteCookies", "nullCookies", "arrayCookies",
                "dateCookies", "primitiveCookies"}
Replacement(kind) ==
    CASE kind = "deleteCookies" -> NotAJar("undefined")
      [] kind = "nullCookies" -> NotAJar("null")
      [] kind = "arrayCookies" -> NotAJar("array")
      [] kind = "dateCookies" -> NotAJar("date")
      [] OTHER -> NotAJar("primitive")

\* an options argument: an object (option name -> "own", "dflt" or
\* "undefined"), or undefined
Options(map) == [defined |-> TRUE, map |-> map]
NoOptions == [defined |-> FALSE, map |-> EmptyObj]

\* a cookie value: a primitive ("bar", "null", "falsy", "undefined"), or an
\* object with its keys, its `value` and its `options` properties
Primitive(lit) ==
    [object |-> FALSE, lit |-> lit, keys |-> {}, value |-> "undefined",
     options |-> NoOptions]
Object(keys, value, options) ==
    [object |-> TRUE, lit |-> "object", keys |-> keys, value |-> value,
     options |-> options]
Truthy(val) == val.object \/ val.lit = "bar"

MergeOptionsDefaultsWin(options, defaults) ==
    IF ~defaults.defined THEN options
    ELSE Options(Spread(options.map, defaults.map))

\* mergeOptions(options, defaults) (lines 17-27)
MergeOptions(options, defaults) ==
    IF ~defaults.defined THEN options
    ELSE LET newOptions == options.map
             IsUndefined(obj, key) == key \notin DOMAIN obj \/ obj[key] = "undefined"
             filtered == {key \in DOMAIN defaults.map :
                             /\ ~IsUndefined(defaults.map, key)
                             /\ IsUndefined(newOptions, key)}
         IN Options([key \in DOMAIN newOptions \cup filtered |->
                       IF key \in filtered THEN defaults.map[key]
                       ELSE newOptions[key]])

\* line 355: the value is taken for a value with options
HasValueAndOptions(val) ==
    /\ Truthy(val)
    /\ val.value # "undefined"
    /\ val.options.defined
    /\ Cardinality(val.keys) = 2

\* the body of the forEach of lines 351-368: the call made on res for the
\* cookie `name` of value `cookie`, given the process defaults
CookieCall(name, cookie, defaults) ==
    LET options == IF HasValueAndOptions(cookie)
                   THEN MergeOptions(cookie.options, defaults) ELSE defaults
        val == IF HasValueAndOptions(cookie) THEN Primitive(cookie.value) ELSE cookie
    IN IF ~val.object /\ val.lit = "null"
       THEN [fn |-> "clearCookie", name |-> name, val |-> Primitive("undefined"),
             options |-> options]
       ELSE [fn |-> "cookie", name |-> name, val |-> val, options |-> options]

\* ensureCookies (lines 184-189) on a data object whose cookies are `slot`;
\* `fresh` is the number of the jar a reset creates
EnsureCookies(slot, fresh) == IF IsPlainObject(slot) THEN slot ELSE Jar(fresh)

\* the cookies of the data objects that are garbage, and the jars no live
\* data object refers to, are garbage
CollectSlots(slots, live) ==
    [o \in DOMAIN slots |-> IF o \in live THEN slots[o] ELSE NotAJar("undefined")]
CollectJars(contents, slots) ==
    [j \in DOMAIN contents |->
        IF \E o \in DOMAIN slots : slots[o] = Jar(j) THEN contents[j] ELSE EmptyObj]

\* the same, when at most the data object o, or the jar of `slot`, has become
\* garbage
DropSlot(slots, o, ref, holders) ==
    IF o = ref \/ \E q \in holders : held[q].d = o THEN slots
    ELSE [slots EXCEPT ![o] = NotAJar("undefined")]
DropJar(contents, slots, slot) ==
    IF ~IsPlainObject(slot) \/ \E o \in DOMAIN slots : slots[o] = slot
    THEN contents ELSE [contents EXCEPT ![slot] = EmptyObj]

\* `data.cookies = {}` (line 186): jar `fresh` is a new, empty object
Reset(contents, slot, fresh) ==
    IF IsPlainObject(slot) THEN contents ELSE [contents EXCEPT ![fresh] = EmptyObj]

\* what a pending call holds: what the process function does, the objects it
\* was handed, and the kind of value it throws ("none": it does not throw)
NoHeld == [kind |-> "none", key |-> "k1", d |-> 0, c |-> 0, ex |-> "none"]
NoOutcome == [kind |-> "none"]
NoInvocation == [runState |-> "none"]
OneFacade == [self |-> 1, shelved |-> <<>>, called |-> 0]

\* compose, then no call of start yet
Composed ==
    /\ processors \in Pipelines
    /\ prerequisites \in [SeqToSet(Flat(processors)) -> PrereqLists]
    /\ Declared(prerequisites, Flat(processors)) <= MaxPrereqs
    /\ invalidConfigs = ValidatePipeline(processors, prerequisites, {})
    /\ runState = "idle"
    /\ continueOnError = FALSE
    /\ startingContext = EmptyObj
    /\ i = 1
    /\ awaiting = FALSE
    /\ data = 0
    /\ context = 0
    /\ dataHeap = [o \in 0..MaxProcs |-> EmptyObj]
    /\ ctxHeap = [o \in 0..MaxProcs |-> EmptyObj]
    /\ errors = <<>>
    /\ processorsRun = <<>>
    /\ pc = [p \in ProcessorNames |-> "idle"]
    /\ held = [p \in ProcessorNames |-> NoHeld]
    /\ outcome = NoOutcome
    /\ processCalls = [p \in ProcessorNames |-> 0]
    /\ runIfCalls = [p \in ProcessorNames |-> 0]
    /\ foldData = EmptyObj
    /\ foldCtx = EmptyObj
    /\ inPlaceOnly = [k \in Keys |-> FALSE]
    /\ log = EmptyBag
    /\ entry = "start"
    /\ wrapper = "idle"
    /\ response = <<>>
    /\ cookieSlot = [o \in 0..MaxProcs |-> IF o = 0 THEN Jar(0) ELSE NotAJar("undefined")]
    /\ jars = [j \in 0..MaxProcs |-> EmptyObj]
    /\ cookieCalls = EmptyBag
    /\ suspended = NoInvocation
    /\ composed = OneFacade

\* what a process function may do with the data and context it is handed
InPlaceKinds == {"inPlace", "inPlaceReturn"}
ProcessKinds == {"inPlace", "inPlaceReturn", "returnGiven", "returnNew"}
KeysOf(kind) == IF kind \in {"inPlace", "inPlaceReturn", "returnNew"} THEN Keys ELSE {"k1"}

\* processors that leave data.cookies alone, composed without cookieOptions
NoCookies ==
    /\ kinds = ProcessKinds
    /\ cookieValues = {}
    /\ cookieOptions = NoOptions
    /\ responseSupportsCookies = TRUE

Init ==
    /\ Composed
    /\ NoCookies
    /\ throwables = {"Error"}

\* ------------------------------------------------------------ start
StartingContexts == {[k \in {"k1"} |-> StarterVal]}

InitialContextCallerWins(sc) == sc

\* lines 176-180: context = {...startingContext, processName} and
\* context.errors = []: the keys of the caller, without a processName or an
\* errors of the caller (the errors property is the variable `errors`, the
\* processName is the same in every context)
InitialContext(sc) == [k \in DOMAIN sc \ {"processName", "errors"} |-> sc[k]]

HasSeveralInvalidConfigs == Len(invalidConfigs) > 1

\* line 172: the facade carries configuration errors
HasInvalidConfigs == Len(invalidConfigs) > 0

runVars == <<i, awaiting, data, context, dataHeap, ctxHeap, errors,
             processorsRun, pc, held, processCalls, runIfCalls, history,
             cookieVars>>

\* start(startingContext, continueOnError), up to the step loop, called by
\* the user (how = "start") or by send or fireAndForget
StartCall(sc, coe, how) ==
    /\ runState \in {"idle", "resolved", "rejected"}
    /\ wrapper # "pending"
    /\ startingContext' = sc
    /\ continueOnError' = coe
    /\ entry' = how
    /\ wrapper' = IF how = "start" THEN "idle" ELSE "pending"
    /\ response' = <<>>
    /\ cookieCalls' = EmptyBag
    /\ UNCHANGED <<facade, environment, composed, suspended>>
    /\ log' = EmptyBag
    /\ IF HasInvalidConfigs
       THEN /\ runState' = "rejected"
            /\ outcome' = [kind |-> "InvalidProcessError",
                           configurationErrors |-> invalidConfigs]
            /\ UNCHANGED runVars
       ELSE /\ runState' = "running"
            /\ outcome' = NoOutcome
            /\ i' = 1
            /\ awaiting' = FALSE
            /\ data' = 0
            /\ context' = 0
            /\ dataHeap' = [o \in 0..MaxProcs |-> EmptyObj]
            /\ ctxHeap' = [o \in 0..MaxProcs |->
                             IF o = 0 THEN InitialContext(sc) ELSE EmptyObj]
            /\ errors' = <<>>
            /\ processorsRun' = <<>>
            /\ pc' = [p \in ProcessorNames |-> "idle"]
            /\ held' = [p \in ProcessorNames |-> NoHeld]
            /\ processCalls' = [p \in ProcessorNames |-> 0]
            /\ runIfCalls' = [p \in ProcessorNames |-> 0]
            /\ foldData' = EmptyObj
            /\ foldCtx' = InitialContext(sc)
            /\ inPlaceOnly' = [k \in Keys |-> FALSE]
            /\ cookieSlot' = [o \in 0..MaxProcs |->
                                IF o = 0 THEN Jar(0) ELSE NotAJar("undefined")]
            /\ jars' = [j \in 0..MaxProcs |-> EmptyObj]

Start(sc, coe) == StartCall(sc, coe, "start")

CheckErrorsThrowsOnSecond == Len(errors) > 1 /\ ~continueOnError
CheckErrorsThrowsAlways == Len(errors) > 0

\* checkErrors (lines 282-286): TRUE when it throws
CheckErrorsThrows == Len(errors) > 0 /\ ~continueOnError

\* the ProcessError thrown by checkErrors
NewProcessError ==
    [kind |-> "ProcessError",
     startingContext |-> startingContext,
     errorsFromProcessors |-> errors]

\* checkErrors throws at the head of an iteration (line 290) or after the
\* loop (line 310); the catch of line 311 rethrows and start rejects
RejectOnErrors ==
    /\ runState = "running"
    /\ ~awaiting
    /\ CheckErrorsThrows
    /\ runState' = "rejected"
    /\ outcome' = NewProcessError
    /\ UNCHANGED <<facade, environment, composed, suspended, caller, log, continueOnError, startingContext, runVars>>

NotRunOrFailed(prereq) ==
    \A j \in DOMAIN processorsRun : processorsRun[j].name = prereq => ~processorsRun[j].ok

\* processorsRun.find(p => p.name === prereq) exists and is not ok
RanAndFailed(prereq) ==
    /\ \E j \in DOMAIN processorsRun : processorsRun[j].name = prereq
    /\ LET first == CHOOSE j \in DOMAIN processorsRun :
                       /\ processorsRun[j].name = prereq
                       /\ \A jj \in 1..(j - 1) : processorsRun[jj].name # prereq
       IN ~processorsRun[first].ok

SkipForFirstPrereq(p) ==
    prerequisites[p] # <<>> /\ RanAndFailed(prerequisites[p][1])

\* the prerequisite check of getExecutable (lines 263-275)
SkipForPrereq(p) ==
    \E j \in DOMAIN prerequisites[p] : RanAndFailed(prerequisites[p][j])

\* line 271: one call of error for every failed prerequisite of a member
FailedPrereqs(p) ==
    Cardinality({j \in DOMAIN prerequisites[p] : RanAndFailed(prerequisites[p][j])})
SkipLog(skipped) ==
    [e \in {LogEntry(271, p) : p \in skipped} |-> FailedPrereqs(e.about)]

\* one iteration head: checkErrors passes, getExecutable filters the step,
\* calls runIf of every remaining member and the loop awaits Promise.all
BeginStep ==
    /\ runState = "running"
    /\ ~awaiting
    /\ i <= Len(processors)
    /\ ~CheckErrorsThrows
    /\ LET step == SeqToSet(processors[i])
           toExec == {p \in step : ~SkipForPrereq(p)}
       IN /\ pc' = [p \in ProcessorNames |->
                       IF p \in toExec THEN "runIf"
                       ELSE IF p \in step THEN "skipped" ELSE pc[p]]
          /\ runIfCalls' = [p \in ProcessorNames |->
                       IF p \in toExec THEN runIfCalls[p] + 1 ELSE runIfCalls[p]]
          /\ IF toExec = {}
             THEN i' = i + 1 /\ awaiting' = FALSE
             ELSE i' = i /\ awaiting' = TRUE
          /\ log' = IF toExec = step THEN log ELSE log (+) SkipLog(step \ toExec)
    /\ UNCHANGED <<facade, environment, composed, suspended, caller, runState, continueOnError, startingContext, data,
                   context, dataHeap, ctxHeap, errors, processorsRun, held,
                   outcome, processCalls, history, cookieVars>>

RunIfPendingInTurn(p) ==
    pc[p] = "runIf" /\ \A q \in ProcessorNames : q < p => pc[q] \notin {"runIf", "process", "settling"}

\* line 243: the promise of p waits for the result of its runIf, and for
\* nothing else
RunIfPending(p) == pc[p] = "runIf"

\* getExecPromise resumes after `await processor.runIf(data, context)`:
\* truthy: process is invoked with the current data and context;
\* falsy: the promise resolves with the current {data, context};
\* runIf threw or rejected: the promise rejects
RunIfSettles(p) ==
    /\ RunIfPending(p)
    /\ \/ \E kind \in kinds : \E key \in KeysOf(kind) :
             /\ held' = [held EXCEPT ![p] =
                           [kind |-> kind, key |-> key, d |-> data, c |-> context,
                            ex |-> "none"]]
             /\ processCalls' = [processCalls EXCEPT ![p] = @ + 1]
             /\ pc' = [pc EXCEPT ![p] =
                           IF kind \in InPlaceKinds \cup CookieKinds
                           THEN "process" ELSE "settling"]
       \/ \E tk \in throwables :
             /\ held' = [held EXCEPT ![p] =
                           [kind |-> "throw", key |-> "k1", d |-> data, c |-> context,
                            ex |-> tk]]
             /\ processCalls' = [processCalls EXCEPT ![p] = @ + 1]
             /\ pc' = [pc EXCEPT ![p] = "throwing"]
       \/ /\ held' = [held EXCEPT ![p] =
                           [kind |-> "bypass", key |-> "k1", d |-> data, c |-> context,
                            ex |-> "none"]]
          /\ pc' = [pc EXCEPT ![p] = "settling"]
          /\ UNCHANGED processCalls
       \/ \E tk \in throwables :
             /\ held' = [held EXCEPT ![p] =
                           [kind |-> "throw", key |-> "k1", d |-> data, c |-> context,
                            ex |-> tk]]
             /\ pc' = [pc EXCEPT ![p] = "throwing"]
             /\ UNCHANGED processCalls
    /\ UNCHANGED <<facade, environment, composed, suspended, caller, log, runState, continueOnError, startingContext, i, awaiting,
                   data, context, dataHeap, ctxHeap, errors, processorsRun,
                   outcome, runIfCalls, history, cookieVars>>

\* `data.cookies[name] = value` throws a TypeError when data.cookies is
\* undefined or null; on a number it throws in strict code only
SettingThrows(slot, strict) ==
    IsA(slot, "undefined") \/ IsA(slot, "null") \/ (IsA(slot, "primitive") /\ strict)

\* a pending process function writes on the data.cookies it was handed: it
\* sets the cookie named after it, or deletes or replaces data.cookies
WriteCookies(p) ==
    LET slot == cookieSlot[held[p].d]
    IN IF held[p].kind = "setCookie"
       THEN \E value \in cookieValues, strict \in BOOLEAN :
               IF SettingThrows(slot, strict)
               THEN /\ held' = [held EXCEPT ![p].ex = "TypeError"]
                    /\ pc' = [pc EXCEPT ![p] = "throwing"]
                    /\ UNCHANGED cookieVars
               ELSE /\ jars' = IF IsPlainObject(slot)
                               THEN [jars EXCEPT ![slot] = Assign(@, p, value)]
                               ELSE jars
                    /\ pc' = [pc EXCEPT ![p] = "settling"]
                    /\ UNCHANGED <<held, cookieSlot>>
       ELSE /\ cookieSlot' = [cookieSlot EXCEPT ![held[p].d] = Replacement(held[p].kind)]
            /\ jars' = DropJar(jars, cookieSlot', slot)
            /\ pc' = [pc EXCEPT ![p] = "settling"]
            /\ UNCHANGED held

\* a pending process function writes its key on the objects it was handed,
\* or writes on data.cookies
WriteInPlace(p) ==
    /\ pc[p] = "process"
    /\ IF held[p].kind \in CookieKinds
       THEN /\ WriteCookies(p)
            /\ UNCHANGED <<dataHeap, ctxHeap>>
       ELSE /\ dataHeap' = [dataHeap EXCEPT ![held[p].d] = Assign(@, held[p].key, p)]
            /\ ctxHeap' = [ctxHeap EXCEPT ![held[p].c] = Assign(@, held[p].key, p)]
            /\ pc' = [pc EXCEPT ![p] = "settling"]
            /\ UNCHANGED <<held, cookieVars>>
    /\ UNCHANGED <<facade, environment, composed, suspended, caller, log, runState, continueOnError, startingContext, i, awaiting,
                   data, context, errors, processorsRun, outcome,
                   processCalls, runIfCalls, history>>

\* the value the promise of p resolves with: absent, the objects it was
\* handed, or fresh objects holding its key
HasResult(p) == held[p].kind \notin {"inPlace"} \cup CookieKinds
ResultOf(p, heap, ref) ==
    IF held[p].kind = "returnNew" THEN [k \in {held[p].key} |-> p]
    ELSE IF held[p].kind = "returnErrors" THEN EmptyObj
    ELSE heap[ref]

\* history: the effect of a settled processor on an accumulator, by value:
\* its in-place write, then the overlay of the keys it returned in a new object
Writes(p, k) ==
    held[p].kind \in {"inPlace", "inPlaceReturn", "returnNew"} /\ held[p].key = k
Effect(p, acc) ==
    IF held[p].kind \in {"inPlace", "inPlaceReturn"} THEN Assign(acc, held[p].key, p)
    ELSE IF held[p].kind = "returnNew" THEN Spread(acc, [k \in {held[p].key} |-> p])
    ELSE acc

\* the processors other than p that hold the objects they were handed
StillPending(p) == {q \in ProcessorNames \ {p} : pc[q] \in {"process", "settling"}}

\* an object that neither the closure variable nor a pending call refers to
\* is garbage
Collect(heap, live) == [o \in DOMAIN heap |-> IF o \in live THEN heap[o] ELSE EmptyObj]

MergeOldWins(current, result) == Spread(result, current)

\* lines 199-208: {...context, ...result.context}
Merge(current, result) == Spread(current, result)

\* the `cookies` property of {...data, ...result.data} (lines 204-207): that
\* of result.data if it has one
MergedCookies(p) ==
    LET given == IF held[p].kind \in {"returnNew", "returnErrors"}
                 THEN NotAJar("undefined")
                 ELSE cookieSlot[held[p].d]
    IN IF HasResult(p) /\ ~IsA(given, "undefined") THEN given ELSE cookieSlot[data]

\* the `errors` property of {...context, ...result.context} (lines 200-203):
\* that of result.context if it has one. A process function of kind
\* "returnErrors" returns {context: {errors: []}}; the others return a
\* context that has the array of the run, or none
ErrorsOf(p, current) == IF held[p].kind = "returnErrors" THEN <<>> ELSE current

\* aggregateResult(p, result), the `then` of the promise of p
AggregateResult(p) ==
    /\ pc[p] = "settling"
    /\ LET ref == IF HasResult(p) THEN p ELSE data
           merged == MergedCookies(p)
       IN /\ cookieSlot' = DropSlot(DropSlot([cookieSlot EXCEPT ![ref] =
                                                 EnsureCookies(merged, p)],
                                             held[p].d, ref, StillPending(p)),
                                    data, ref, StillPending(p))
          /\ jars' = DropJar(DropJar(Reset(jars, merged, p), cookieSlot',
                                     cookieSlot[held[p].d]),
                             cookieSlot', cookieSlot[data])
          /\ log' = Logged(log, LogEntry(186, p), IF IsPlainObject(merged) THEN 0 ELSE 1)
    /\ processorsRun' = Append(processorsRun, [name |-> p, ok |-> TRUE])
    /\ pc' = [pc EXCEPT ![p] = "ok"]
    /\ IF HasResult(p)
       THEN /\ context' = p
            /\ ctxHeap' = Collect([ctxHeap EXCEPT ![p] =
                              Merge(ctxHeap[context], ResultOf(p, ctxHeap, held[p].c))],
                           {p} \cup {held[q].c : q \in StillPending(p)})
            /\ data' = p
            /\ dataHeap' = Collect([dataHeap EXCEPT ![p] =
                              Merge(dataHeap[data], ResultOf(p, dataHeap, held[p].d))],
                           {p} \cup {held[q].d : q \in StillPending(p)})
       ELSE /\ UNCHANGED <<data, context>>
            /\ ctxHeap' = Collect(ctxHeap,
                           {context} \cup {held[q].c : q \in StillPending(p)})
            /\ dataHeap' = Collect(dataHeap,
                           {data} \cup {held[q].d : q \in StillPending(p)})
    /\ held' = [held EXCEPT ![p] = NoHeld]
    /\ foldData' = Effect(p, foldData)
    /\ foldCtx' = Effect(p, foldCtx)
    /\ inPlaceOnly' = [k \in Keys |->
                     IF Writes(p, k)
                     THEN /\ k \notin DOMAIN foldData
                          /\ held[p].kind = "inPlace"
                          /\ Len(processors[StepOf(p)]) > 1
                     ELSE inPlaceOnly[k]]
    /\ errors' = ErrorsOf(p, errors)
    /\ UNCHANGED <<facade, environment, composed, suspended, caller, runState, continueOnError, startingContext, i, awaiting,
                   outcome, processCalls, runIfCalls>>

\* line 218: `ex.message` on a nullish ex throws a TypeError
ReadingMessageThrows(ex) == ex.type = "nullish"

\* lines 231-233: `ex.doNotLog || ex.isEpiError`
DoNotLog(ex) == ex.doNotLog \/ ex.type = "EpiError"

\* lines 231-238: ex.doNotLog is true once handleProcessorError is done; on a
\* string the assignments have no effect (the module is not in strict mode)
Marked(ex) == IF ex.type = "string" THEN ex ELSE [ex EXCEPT !.doNotLog = TRUE]

\* lines 216-220: the entry pushed on context.errors; its ex is the value
\* that was thrown
ErrInfo(name, ex) ==
    [occurredIn |-> name, message |-> ex.message, ex |-> Marked(ex)]

\* handleProcessorError(p.name, ex), the `catch` of the promise of p
HandleProcessorError(p) ==
    /\ pc[p] = "throwing"
    /\ ~ReadingMessageThrows(Thrown(p, held[p].ex))
    /\ processorsRun' = Append(processorsRun, [name |-> p, ok |-> FALSE])
    /\ errors' = Append(errors, ErrInfo(p, Thrown(p, held[p].ex)))
    /\ cookieSlot' = DropSlot([cookieSlot EXCEPT ![data] = EnsureCookies(@, p)],
                              held[p].d, data, StillPending(p))
    /\ jars' = DropJar(Reset(jars, cookieSlot[data], p), cookieSlot',
                       cookieSlot[held[p].d])
    /\ log' = Logged(Logged(log, LogEntry(186, p),
                            IF IsPlainObject(cookieSlot[data]) THEN 0 ELSE 1),
                     LogEntry(236, p), IF DoNotLog(Thrown(p, held[p].ex)) THEN 0 ELSE 1)
    /\ pc' = [pc EXCEPT ![p] = "failed"]
    /\ held' = [held EXCEPT ![p] = NoHeld]
    /\ UNCHANGED <<facade, environment, composed, suspended, caller, runState, continueOnError, startingContext, i, awaiting,
                   data, context, dataHeap, ctxHeap, outcome,
                   processCalls, runIfCalls, history>>

\* execInfo.name (lines 255 and 258): the processor's name, or for a group
\* a string made of the members' names, which is the name of no processor
ExecInfoName(j) == IF Len(processors[j]) = 1 THEN processors[j][1] ELSE 0 - j

TypeError == ErrorObj(MessageOf(0), "TypeError", NoResponseInfo, FALSE)

\* handleProcessorError(p.name, ex) with a nullish ex: line 218 throws a
\* TypeError, so the promise of p rejects.  If Promise.all of the running
\* step is still pending it rejects too, the catch of line 298 calls
\* handleProcessorError(execInfo.name, the TypeError), and the loop goes on
\* to the next iteration while the other members of the step are pending
HandleProcessorErrorThrows(p) ==
    /\ pc[p] = "throwing"
    /\ ReadingMessageThrows(Thrown(p, held[p].ex))
    /\ pc' = [pc EXCEPT ![p] = "escaped"]
    /\ held' = [held EXCEPT ![p] = NoHeld]
    /\ IF runState = "running" /\ awaiting /\ p \in SeqToSet(processors[i])
       THEN /\ processorsRun' =
                   Append(processorsRun, [name |-> ExecInfoName(i), ok |-> FALSE])
            /\ errors' = Append(errors, ErrInfo(ExecInfoName(i), TypeError))
            /\ cookieSlot' = [cookieSlot EXCEPT ![data] = EnsureCookies(@, p)]
            /\ jars' = Reset(jars, cookieSlot[data], p)
            /\ log' = Logged(Logged(log, LogEntry(186, ExecInfoName(i)),
                                    IF IsPlainObject(cookieSlot[data]) THEN 0 ELSE 1),
                             LogEntry(236, ExecInfoName(i)), 1)
            /\ i' = i + 1
            /\ awaiting' = FALSE
       ELSE UNCHANGED <<processorsRun, errors, log, i, awaiting, cookieVars>>
    /\ UNCHANGED <<facade, environment, composed, suspended, caller, runState, continueOnError, startingContext,
                   data, context, dataHeap, ctxHeap, outcome,
                   processCalls, runIfCalls, history>>

Pending == {"runIf", "process", "settling", "throwing"}
Settled == {"ok", "failed"}

AnySettled(step) == \E p \in step : pc[p] \in Settled
AllSettledOrOneFailed(step) ==
    \/ \A p \in step : pc[p] \notin Pending
    \/ \E p \in step : pc[p] = "failed"

\* Promise.all(execInfo.promises) resolves: no promise of the step is pending
AllSettled(step) == \A p \in step : pc[p] \notin Pending

\* every promise of the step has settled, so only the closure variable still
\* refers to an object: the others are garbage, and the object of the closure
\* variable is numbered 0 again (the number of an object carries no meaning)
Reachable(heap, ref) == [o \in DOMAIN heap |-> IF o = 0 THEN heap[ref] ELSE EmptyObj]

\* the processors of a step the loop has left that still hold the objects
\* they were handed (none when every step is awaited to its end)
Holding == {q \in ProcessorNames : pc[q] \in {"process", "settling"}}

\* line 297 resumes and the loop moves on to the next step
EndStep ==
    /\ runState = "running"
    /\ awaiting
    /\ AllSettled(SeqToSet(processors[i]))
    /\ i' = i + 1
    /\ awaiting' = FALSE
    /\ IF Holding = {}
       THEN /\ dataHeap' = Reachable(dataHeap, data)
            /\ ctxHeap' = Reachable(ctxHeap, context)
            /\ data' = 0
            /\ context' = 0
            /\ cookieSlot' = IF data = 0 /\ cookieSlot[0] <= Jar(0) THEN cookieSlot
                              ELSE [o \in DOMAIN cookieSlot |->
                                      IF o # 0 THEN NotAJar("undefined")
                                      ELSE IF IsPlainObject(cookieSlot[data]) THEN Jar(0)
                                      ELSE cookieSlot[data]]
            /\ jars' = IF cookieSlot[data] <= Jar(0) THEN jars
                        ELSE [j \in DOMAIN jars |->
                                IF j = 0 THEN jars[cookieSlot[data]] ELSE EmptyObj]
       ELSE /\ dataHeap' = Collect(dataHeap, {data} \cup {held[q].d : q \in Holding})
            /\ ctxHeap' = Collect(ctxHeap, {context} \cup {held[q].c : q \in Holding})
            /\ cookieSlot' = CollectSlots(cookieSlot,
                                          {data} \cup {held[q].d : q \in Holding})
            /\ jars' = CollectJars(jars, cookieSlot')
            /\ UNCHANGED <<data, context>>
    /\ processCalls' = [p \in ProcessorNames |-> 0]
    /\ runIfCalls' = [p \in ProcessorNames |-> 0]
    /\ UNCHANGED <<facade, environment, composed, suspended, caller, log, runState, continueOnError, startingContext,
                   errors, processorsRun, pc, held, outcome, history>>

\* the `cookies` property of a data object, by value: what it is, and its
\* cookies if it is a plain object
Cookies(is, contents) == [is |-> is, contents |-> contents]

FinalCookiesKept ==
    LET slot == cookieSlot[data]
    IN IF IsPlainObject(slot) THEN Cookies("object", jars[slot])
       ELSE IF IsA(slot, "null") THEN Cookies("null", EmptyObj)
       ELSE Cookies("undefined", EmptyObj)

\* lines 305-308: a truthy data.cookies without keys is deleted
FinalCookies ==
    LET slot == cookieSlot[data]
    IN IF IsPlainObject(slot)
       THEN IF DOMAIN jars[slot] = {} THEN Cookies("undefined", EmptyObj)
            ELSE Cookies("object", jars[slot])
       ELSE IF IsA(slot, "null") THEN Cookies("null", EmptyObj)
       ELSE Cookies("undefined", EmptyObj)

\* line 321: the loop is over and checkErrors passed
Resolve ==
    /\ runState = "running"
    /\ ~awaiting
    /\ i > Len(processors)
    /\ ~CheckErrorsThrows
    /\ runState' = "resolved"
    /\ outcome' = [kind |-> "result",
                   data |-> dataHeap[data],
                   cookies |-> FinalCookies,
                   context |-> ctxHeap[context],
                   errors |-> errors]
    /\ UNCHANGED <<facade, environment, composed, suspended, caller, log, continueOnError, startingContext, runVars>>

\* the steps of a run of start
Run ==
    \/ RejectOnErrors
    \/ BeginStep
    \/ \E p \in ProcessorNames : RunIfSettles(p)
    \/ \E p \in ProcessorNames : WriteInPlace(p)
    \/ \E p \in ProcessorNames : AggregateResult(p)
    \/ \E p \in ProcessorNames : HandleProcessorError(p)
    \/ EndStep
    \/ Resolve

Next ==
    \/ \E sc \in StartingContexts, coe \in BOOLEAN : Start(sc, coe)
    \/ Run

Spec == Init /\ [][Next]_vars

\* compose, and the calls of start up to the step loop: the facade as
\* compose left it
NextCompose == \E sc \in StartingContexts, coe \in BOOLEAN : Start(sc, coe)

SpecCompose == Init /\ [][NextCompose]_vars

\* the same engine with processors that may also reject without a reason
InitNullish ==
    /\ Composed
    /\ NoCookies
    /\ throwables = {"Error", "nullish"}

NextNullish ==
    \/ Next
    \/ \E p \in ProcessorNames : HandleProcessorErrorThrows(p)

SpecNullish == InitNullish /\ [][NextNullish]_vars

\* ------------------------------------------------- send, fireAndForget
MaxSendProcs == 2  \* processors in a pipeline run through send or fireAndForget

\* errors.js lines 6 and 8, jest.config.js line 448
ProcessErrorMessage == Text(0, "ProcessErrorMessage")
InvalidProcessErrorMessage == Text(0, "InvalidProcessErrorMessage")
CouldNotCompleteRequest == Text(0, "Could not complete request.")

\* ex.message and ex.details of what start rejects with
MessageOfError(ex) ==
    IF ex.kind = "ProcessError" THEN ProcessErrorMessage
    ELSE IF ex.kind = "InvalidProcessError" THEN InvalidProcessErrorMessage
    ELSE Text(0, "unexpected")
DetailsOmitted(ex) == Undefined
DetailsOf(ex) == [configurationErrors |-> ex.configurationErrors]

\* the reduce of errors.js line 50, over the ProcessorError instances
RECURSIVE MostSevere(_, _)
MostSevere(mostSevere, exs) ==
    IF exs = <<>> THEN mostSevere
    ELSE LET ex == Head(exs)
         IN MostSevere(IF mostSevere.type = "none" THEN ex
                       ELSE IF ex.responseInfo.statusCode >
                                   mostSevere.responseInfo.statusCode
                            THEN ex ELSE mostSevere,
                       Tail(exs))

MostSevereLast(errorsFromProcessors) ==
    LET exs == SelectSeq([j \in DOMAIN errorsFromProcessors |->
                             errorsFromProcessors[j].ex],
                         LAMBDA ex : ex.type = "ProcessorError")
    IN IF exs = <<>> THEN NoEx ELSE exs[Len(exs)]

\* ProcessError.getMostSevereProcessorError (errors.js lines 46-53); NoEx
\* stands for the null or undefined it returns
GetMostSevereProcessorError(errorsFromProcessors) ==
    MostSevere(NoEx, SelectSeq([j \in DOMAIN errorsFromProcessors |->
                                   errorsFromProcessors[j].ex],
                               LAMBDA ex : ex.type = "ProcessorError"))

SomeErrorLogged(errorsFromProcessors) ==
    \E j \in DOMAIN errorsFromProcessors : errorsFromProcessors[j].ex.doNotLog

\* ProcessError.allErrorsLogged (errors.js lines 56-58)
AllErrorsLogged(errorsFromProcessors) ==
    \A j \in DOMAIN errorsFromProcessors : errorsFromProcessors[j].ex.doNotLog

\* sendErrors (response.js): statusCode 0 stands for an undefined argument
SendErrors(message, responseErrors, statusCode) ==
    [status |-> IF statusCode = 0 THEN 500 ELSE statusCode,
     body |-> [ok |-> FALSE, message |-> message, errors |-> responseErrors]]

\* sendOk (response.js)
SendOk(d) == [status |-> 200, body |-> [ok |-> TRUE, data |-> d]]

ResponseMessageOfError(processorError, ex) ==
    IF processorError.message # Undefined THEN processorError.message
    ELSE MessageOfError(ex)

\* `text || processorError.message || ex.message` (line 435)
ResponseMessage(processorError, ex) ==
    IF processorError.responseInfo.text # Undefined
    THEN processorError.responseInfo.text
    ELSE IF processorError.message # Undefined THEN processorError.message
    ELSE MessageOfError(ex)

\* writeErrors(res, ex) (lines 428-455): the response writes it makes and
\* whether it logs
WriteErrors(ex) ==
    IF ex.kind = "ProcessError"
    THEN LET processorError == GetMostSevereProcessorError(ex.errorsFromProcessors)
         IN [writes |-> <<SendErrors(ResponseMessage(processorError, ex),
                                     processorError.responseInfo.errors,
                                     processorError.responseInfo.statusCode)>>,
             shouldLog |-> ~AllErrorsLogged(ex.errorsFromProcessors)]
    ELSE IF ex.kind = "InvalidProcessError"
    THEN [writes |-> <<SendErrors(MessageOfError(ex), DetailsOf(ex), 0)>>,
          shouldLog |-> TRUE]
    ELSE \* an error of neither class, which carries no doNotLog
         [writes |-> <<SendErrors(CouldNotCompleteRequest, Undefined, 0)>>,
          shouldLog |-> TRUE]

\* what the try block of send or fireAndForget throws: the rejection of
\* start, or the ProcessError of lines 338 and 389; none when start resolved
\* without errors
Caught ==
    IF runState = "rejected" THEN outcome
    ELSE IF Len(outcome.errors) > 0 THEN NewProcessError
    ELSE NoOutcome

\* send(res, startingContext, continueOnError): the call
Send(sc, coe) == StartCall(sc, coe, "send")

\* a data object by value: its keys and its `cookies` property
DataObject(keys, cookies) == [keys |-> keys, cookies |-> cookies]

\* line 342: `data.cookies ? Object.keys(data.cookies) : []` is not empty
HasCookieNames(cookies) == cookies.is = "object" /\ DOMAIN cookies.contents # {}

\* lines 351-368: the calls made on res, one for every cookie name (the
\* order of the calls is left out)
CookieCalls(cookies) ==
    IF HasCookieNames(cookies)
    THEN SetToBag({CookieCall(name, cookies.contents[name], cookieOptions) :
                     name \in DOMAIN cookies.contents})
    ELSE EmptyBag

\* send resumes after `await start(...)` (lines 336-376)
SendSettles ==
    /\ entry = "send"
    /\ wrapper = "pending"
    /\ runState \in {"resolved", "rejected"}
    /\ IF Caught = NoOutcome
       THEN /\ IF HasCookieNames(outcome.cookies) /\ ~responseSupportsCookies
               THEN \* line 347: `return warn(...)`
                    UNCHANGED <<response, cookieCalls>>
               ELSE /\ cookieCalls' = CookieCalls(outcome.cookies)
                    /\ response' = response \o
                          <<SendOk(DataObject(outcome.data,
                                              IF HasCookieNames(outcome.cookies)
                                              THEN Cookies("undefined", EmptyObj)
                                              ELSE outcome.cookies))>>
            /\ UNCHANGED log
       ELSE /\ response' = response \o WriteErrors(Caught).writes
            /\ log' = Logged(log, LogEntry(453, 0),
                             IF WriteErrors(Caught).shouldLog THEN 1 ELSE 0)
            /\ UNCHANGED cookieCalls
    /\ wrapper' = "resolved"
    /\ UNCHANGED <<facade, environment, composed, suspended, entry, runState, continueOnError,
                   startingContext, outcome, runVars>>

\* fireAndForget(startingContext, continueOnError): the call
FireAndForget(sc, coe) == StartCall(sc, coe, "fireAndForget")

FireAndForgetLogsAlways == TRUE

\* the condition of line 392
FireAndForgetLogs ==
    Caught.kind # "ProcessError" \/ ~AllErrorsLogged(Caught.errorsFromProcessors)

\* fireAndForget resumes after `await start(...)` (lines 387-395)
FireAndForgetSettles ==
    /\ entry = "fireAndForget"
    /\ wrapper = "pending"
    /\ runState \in {"resolved", "rejected"}
    /\ log' = Logged(log, LogEntry(393, 0),
                     IF Caught # NoOutcome /\ FireAndForgetLogs THEN 1 ELSE 0)
    /\ wrapper' = "resolved"
    /\ UNCHANGED <<facade, environment, composed, suspended, entry, response, cookieCalls, runState,
                   continueOnError, startingContext, outcome, runVars>>

\* the kinds of error thrown by the processors of a process behind send
SendThrowables == {"Error", "EpiError", "400", "550", "string"}

InitSend ==
    /\ Composed
    /\ NoCookies
    /\ Len(Flat(processors)) <= MaxSendProcs
    /\ throwables = SendThrowables

NextSend ==
    \/ \E sc \in StartingContexts, coe \in BOOLEAN : Send(sc, coe)
    \/ \E sc \in StartingContexts, coe \in BOOLEAN : FireAndForget(sc, coe)
    \/ SendSettles
    \/ FireAndForgetSettles
    \/ Run

SpecSend == InitSend /\ [][NextSend]_vars

\* --------------------------------- send, when the step loop itself throws
\* the Error a listener of the log throws
SchedulerError == ErrorObj(MessageOf(0), "Error", NoResponseInfo, FALSE)

\* one iteration head in which debug(`Executing ...`) of line 296 throws (a
\* listener of the log threw): getExecutable has created the promises of
\* the step, so the runIf of its members are called; the catch of line 298
\* calls handleProcessorError(execInfo.name, ex) and the loop goes on to the
\* next iteration without awaiting them
ExecutingThrows ==
    /\ runState = "running"
    /\ ~awaiting
    /\ i <= Len(processors)
    /\ ~CheckErrorsThrows
    /\ LET step == SeqToSet(processors[i])
           toExec == {p \in step : ~SkipForPrereq(p)}
       IN /\ toExec # {}
          /\ pc' = [p \in ProcessorNames |->
                       IF p \in toExec THEN "runIf"
                       ELSE IF p \in step THEN "skipped" ELSE pc[p]]
          /\ runIfCalls' = [p \in ProcessorNames |->
                       IF p \in toExec THEN runIfCalls[p] + 1 ELSE runIfCalls[p]]
          /\ log' = Logged(IF toExec = step THEN log
                           ELSE log (+) SkipLog(step \ toExec),
                           LogEntry(236, ExecInfoName(i)), 1)
    /\ processorsRun' = Append(processorsRun, [name |-> ExecInfoName(i), ok |-> FALSE])
    /\ errors' = Append(errors, ErrInfo(ExecInfoName(i), SchedulerError))
    /\ i' = i + 1
    /\ awaiting' = FALSE
    /\ UNCHANGED <<facade, environment, composed, suspended, caller, runState, continueOnError,
                   startingContext, data, context, dataHeap, ctxHeap, held,
                   outcome, processCalls, history, cookieVars>>

InitScheduler ==
    /\ Composed
    /\ NoCookies
    /\ Len(Flat(processors)) <= MaxSendProcs
    /\ throwables = {"Error"}

NextScheduler ==
    \/ \E sc \in StartingContexts, coe \in BOOLEAN : Send(sc, coe)
    \/ SendSettles
    \/ Run
    \/ ExecutingThrows

SpecScheduler == InitScheduler /\ [][NextScheduler]_vars

\* -------------------------------------- send, for processes with cookies
MaxCookieProcs == 2  \* processors in a pipeline whose processors use cookies

\* the cookie values of the processors: literals, values with options, and
\* objects that only look like them
SomeOptions == {Options([key \in {"domain"} |-> "own"]),
                Options([key \in {"domain"} |-> "undefined"])}
SomeCookieValues ==
    {Primitive("bar"), Primitive("null"), Primitive("falsy")}
    \cup {Object({"value", "options"}, "bar", options) : options \in SomeOptions}
    \cup {Object({"value", "options"}, "null", Options([key \in {"domain"} |-> "own"])),
          Object({"value", "options"}, "undefined", Options(EmptyObj)),
          Object({"value", "options"}, "bar", NoOptions),
          Object({"value", "options", "bar"}, "bar", Options(EmptyObj))}

\* the cookieOptions of compose: none, or an object
SomeCookieOptions ==
    {NoOptions, Options([key \in {"domain", "path"} |-> "dflt"])}

\* two kinds of process: one whose processors set cookies of every shape,
\* composed with or without cookieOptions, and one whose processors also
\* delete or replace data.cookies
InitCookies ==
    /\ Composed
    /\ Len(Flat(processors)) <= MaxCookieProcs
    /\ \A p \in DOMAIN prerequisites : prerequisites[p] = <<>>
    /\ throwables = {"Error"}
    /\ responseSupportsCookies \in BOOLEAN
    /\ \/ /\ kinds = {"setCookie"}
          /\ cookieValues = SomeCookieValues
          /\ cookieOptions \in SomeCookieOptions
       \/ /\ kinds = CookieKinds \cup {"returnGiven"}
          /\ cookieValues = {Primitive("bar")}
          /\ cookieOptions = NoOptions

NextCookies ==
    \/ \E sc \in StartingContexts, coe \in BOOLEAN : Send(sc, coe)
    \/ SendSettles
    \/ Run

SpecCookies == InitCookies /\ [][NextCookies]_vars

\* ------------------------------------------- small processes, all kinds
MaxRaceProcs == 2  \* processors of a process whose members race

\* the processes of race.spec.js: one step or two, a group among them
InitRace ==
    /\ Composed
    /\ NoCookies
    /\ Len(Flat(processors)) <= MaxRaceProcs
    /\ throwables = {"Error"}

SpecRace == InitRace /\ [][Next]_vars

\* pipelines of single steps whose processors may also return a context that
\* has an `errors` property of its own
InitOwnErrors ==
    /\ Composed
    /\ \A j \in DOMAIN processors : Len(processors[j]) = 1
    /\ kinds = ProcessKinds \cup {"returnErrors"}
    /\ cookieValues = {}
    /\ cookieOptions = NoOptions
    /\ responseSupportsCookies = TRUE
    /\ throwables = {"Error"}

SpecOwnErrors == InitOwnErrors /\ [][Next]_vars

\* ------------------------------------------- two invocations of start
\* the variables of the closure of an invocation of start (lines 169-322),
\* here those of the invocation that is executing
Invocation ==
    [runState |-> runState,
     continueOnError |-> continueOnError,
     startingContext |-> startingContext,
     outcome |-> outcome,
     i |-> i,
     awaiting |-> awaiting,
     data |-> data,
     context |-> context,
     dataHeap |-> dataHeap,
     ctxHeap |-> ctxHeap,
     errors |-> errors,
     processorsRun |-> processorsRun,
     pc |-> pc,
     held |-> held,
     processCalls |-> processCalls,
     runIfCalls |-> runIfCalls,
     foldData |-> foldData,
     foldCtx |-> foldCtx,
     inPlaceOnly |-> inPlaceOnly,
     cookieSlot |-> cookieSlot,
     jars |-> jars]

\* the closure of an invocation that has not been made
NotStarted ==
    [runState |-> "idle",
     continueOnError |-> FALSE,
     startingContext |-> EmptyObj,
     outcome |-> NoOutcome,
     i |-> 1,
     awaiting |-> FALSE,
     data |-> 0,
     context |-> 0,
     dataHeap |-> [o \in 0..MaxProcs |-> EmptyObj],
     ctxHeap |-> [o \in 0..MaxProcs |-> EmptyObj],
     errors |-> <<>>,
     processorsRun |-> <<>>,
     pc |-> [p \in ProcessorNames |-> "idle"],
     held |-> [p \in ProcessorNames |-> NoHeld],
     processCalls |-> [p \in ProcessorNames |-> 0],
     runIfCalls |-> [p \in ProcessorNames |-> 0],
     foldData |-> EmptyObj,
     foldCtx |-> EmptyObj,
     inPlaceOnly |-> [k \in Keys |-> FALSE],
     cookieSlot |-> [o \in 0..MaxProcs |-> IF o = 0 THEN Jar(0) ELSE NotAJar("undefined")],
     jars |-> [j \in 0..MaxProcs |-> EmptyObj]]

Resumed == IF suspended = NoInvocation THEN NotStarted ELSE suspended

SwitchSharingRunLog ==
    LET next == Resumed
    IN /\ suspended' = Invocation
       /\ runState' = next.runState
       /\ continueOnError' = next.continueOnError
       /\ startingContext' = next.startingContext
       /\ outcome' = next.outcome
       /\ i' = next.i
       /\ awaiting' = next.awaiting
       /\ data' = next.data
       /\ context' = next.context
       /\ dataHeap' = next.dataHeap
       /\ ctxHeap' = next.ctxHeap
       /\ pc' = next.pc
       /\ held' = next.held
       /\ processCalls' = next.processCalls
       /\ runIfCalls' = next.runIfCalls
       /\ foldData' = next.foldData
       /\ foldCtx' = next.foldCtx
       /\ inPlaceOnly' = next.inPlaceOnly
       /\ cookieSlot' = next.cookieSlot
       /\ jars' = next.jars
       /\ UNCHANGED <<facade, environment, composed, caller, log, errors, processorsRun>>

\* the invocation that is executing reaches an await or returns, and the
\* other invocation goes on (or can be made): every variable of the closure
\* of start is that of the other invocation
Switch ==
    LET next == Resumed
    IN /\ suspended' = Invocation
       /\ runState' = next.runState
       /\ continueOnError' = next.continueOnError
       /\ startingContext' = next.startingContext
       /\ outcome' = next.outcome
       /\ i' = next.i
       /\ awaiting' = next.awaiting
       /\ data' = next.data
       /\ context' = next.context
       /\ dataHeap' = next.dataHeap
       /\ ctxHeap' = next.ctxHeap
       /\ errors' = next.errors
       /\ processorsRun' = next.processorsRun
       /\ pc' = next.pc
       /\ held' = next.held
       /\ processCalls' = next.processCalls
       /\ runIfCalls' = next.runIfCalls
       /\ foldData' = next.foldData
       /\ foldCtx' = next.foldCtx
       /\ inPlaceOnly' = next.inPlaceOnly
       /\ cookieSlot' = next.cookieSlot
       /\ jars' = next.jars
       /\ UNCHANGED <<facade, environment, composed, caller, log>>

\* the process [1, 2] where 2 declares 1 as prerequisite; its processors
\* write a key, return one, throw or replace data.cookies
InitTwoStarts ==
    /\ Composed
    /\ processors = <<<<1>>, <<2>>>>
    /\ prerequisites = <<<<>>, <<1>>>>
    /\ kinds = {"inPlace", "returnNew", "nullCookies"}
    /\ cookieValues = {}
    /\ cookieOptions = NoOptions
    /\ responseSupportsCookies = TRUE
    /\ throwables = {"Error"}

NextTwoStarts ==
    \/ \E sc \in StartingContexts, coe \in BOOLEAN : Start(sc, coe)
    \/ Run
    \/ Switch

SpecTwoStarts == InitTwoStarts /\ [][NextTwoStarts]_vars

\* ---------------------------------- start, with any starting context
\* the starting contexts of a caller: without keys, with a key of its own,
\* with keys named as those start sets
CallerContexts ==
    {EmptyObj, [k \in {"k1"} |-> StarterVal],
     [k \in {"k1", "processName", "errors"} |-> StarterVal]}

NextStart ==
    \/ \E sc \in CallerContexts, coe \in BOOLEAN : Start(sc, coe)
    \/ Run

SpecStart == InitRace /\ [][NextStart]_vars

\* ------------------------------- a run whose promises all get to settle
\* small processes whose processors may also reject without a reason
InitSettling ==
    /\ Composed
    /\ NoCookies
    /\ Len(Flat(processors)) <= MaxRaceProcs
    /\ throwables = {"Error", "nullish"}

\* the event loop runs every continuation that is ready, and every runIf
\* and process that was invoked settles: no step of a run that can be taken
\* is put off for ever
RunsOn ==
    /\ WF_vars(Run)
    /\ WF_vars(\E p \in ProcessorNames : HandleProcessorErrorThrows(p))

SpecSettling == InitSettling /\ [][NextNullish]_vars /\ RunsOn

\* ------------------------------------ processes that declare prerequisites
\* the processes of any shape in which a processor declares a prerequisite,
\* with processors that write in place or return a new object
InitSkips ==
    /\ Composed
    /\ Declared(prerequisites, Flat(processors)) >= 1
    /\ kinds = {"inPlace", "returnNew"}
    /\ cookieValues = {}
    /\ cookieOptions = NoOptions
    /\ responseSupportsCookies = TRUE
    /\ throwables = {"Error"}

SpecSkips == InitSkips /\ [][Next]_vars

\* ------------------------------------------------ register, deregister
MaxInvalid == 2    \* configuration errors recorded on a facade

\* processors.some(p => p.name === name) (line 130): the names it can find
\* are those of the entries that are processors; an array has no name
Named(steps) == {steps[j][1] : j \in {jj \in DOMAIN steps : Len(steps[jj]) = 1}}

\* lines 130-135: push the processor unless an entry has its name
RegisterProcessor(steps, name) ==
    IF name \notin Named(steps) THEN Append(steps, <<name>>) ELSE steps

\* register(name, processor, {prerequisites}), called with a string and a
\* function, so that createProcessor does not throw. A processor whose name
\* is in the step list is registered with the prerequisites that name has.
Register(name, prereqs) ==
    LET missing == MissingPrereqs(prereqs, SeqToSet(Flat(processors)))
    IN /\ name \in DOMAIN prerequisites => prereqs = prerequisites[name]
       /\ name \notin Named(processors) => Len(Flat(processors)) < MaxProcs
       /\ name \notin DOMAIN prerequisites =>
              Declared(prerequisites, Flat(processors)) + Len(prereqs) <= MaxPrereqs
       /\ missing # <<>> => Len(invalidConfigs) < MaxInvalid
       /\ invalidConfigs' =
              IF missing # <<>>
              THEN Append(invalidConfigs, [processorName |-> name, reason |-> missing])
              ELSE invalidConfigs
       /\ processors' = RegisterProcessor(processors, name)
       /\ prerequisites' =
              [p \in DOMAIN prerequisites \cup {name} |->
                  IF p = name THEN prereqs ELSE prerequisites[p]]
       /\ UNCHANGED <<environment, composed, suspended, caller, log, runState, continueOnError,
                      startingContext, outcome, runVars>>

\* removeProcessor (lines 142-151)
RemoveProcessor(processorName, processorList) ==
    SelectSeq([j \in DOMAIN processorList |->
                  SelectSeq(processorList[j], LAMBDA p : p # processorName)],
              LAMBDA p : p # <<>>)

FilterConfigsOfProcessor(configs, processorName) ==
    SelectSeq(configs, LAMBDA p : p.processorName # processorName)

\* line 158: invalidConfigs.filter(p => p.name !== processorName), on entries
\* {processorName, reason}
FilterConfigs(configs, processorName) ==
    SelectSeq(configs, LAMBDA p : "name" \in DOMAIN p => p.name # processorName)

\* deregister(processorName), called with a name that is in no group together
\* with another name (a group is not left with one member)
Deregister(processorName) ==
    /\ \A j \in DOMAIN processors :
           processorName \in SeqToSet(processors[j]) =>
               SeqToSet(processors[j]) = {processorName}
    /\ processors' = RemoveProcessor(processorName, processors)
    /\ invalidConfigs' = FilterConfigs(invalidConfigs, processorName)
    /\ prerequisites' = [p \in DOMAIN prerequisites \ {processorName} |-> prerequisites[p]]
    /\ UNCHANGED <<environment, composed, suspended, caller, log, runState, continueOnError,
                   startingContext, outcome, runVars>>

InitRegister ==
    /\ Composed
    /\ NoCookies
    /\ throwables = {"Error"}

\* the calls on a facade that is composed: register, deregister and start
\* up to the step loop
NextRegister ==
    \/ \E name \in ProcessorNames, prereqs \in PrereqLists : Register(name, prereqs)
    \/ \E processorName \in ProcessorNames : Deregister(processorName)
    \/ \E sc \in StartingContexts : Start(sc, FALSE)

SpecRegister == InitRegister /\ [][NextRegister]_vars

\* ---------------------------------- register, deregister during a run
\* the step list of the facade when its run starts
StepsAtStart == <<<<1>>, <<2>>>>

InitInFlight ==
    /\ Composed
    /\ NoCookies
    /\ processors = StepsAtStart
    /\ prerequisites = <<<<>>, <<>>>>
    /\ throwables = {"Error"}

\* register(name, processor) while the loop of a run is at an await
RegisterInFlight(name) ==
    /\ runState = "running"
    /\ awaiting
    /\ Register(name, <<>>)

\* deregister(processorName) while the loop of a run is at an await, called
\* with the name of a step the loop has not reached (the awaited step and
\* the steps before it stay in the list, so processors[i] is the awaited step)
DeregisterInFlight(processorName) ==
    /\ runState = "running"
    /\ awaiting
    /\ \E j \in DOMAIN processors : j > i /\ processorName \in SeqToSet(processors[j])
    /\ Deregister(processorName)

\* one run of the facade, and calls of register and deregister during it
NextInFlight ==
    \/ runState = "idle" /\ \E sc \in StartingContexts, coe \in BOOLEAN : Start(sc, coe)
    \/ Run
    \/ \E name \in ProcessorNames : RegisterInFlight(name)
    \/ \E processorName \in ProcessorNames : DeregisterInFlight(processorName)

SpecInFlight == InitInFlight /\ [][NextInFlight]_vars

\* ------------------------------------------- register, any arguments
\* the arguments of a call of register besides the name: the type of the
\* name, what is passed as the processor, and the runIf and prerequisites
\* of the options
ValidArgs ==
    [nameType |-> "string", processor |-> "function", runIf |-> "undefined",
     prerequisites |-> "undefined"]

\* a valid call, and the calls that differ from it in one argument
Arguments ==
    {[ValidArgs EXCEPT !.nameType = "number"]}
    \cup {[ValidArgs EXCEPT !.processor = v] :
              v \in {"function", "object", "objectWithoutProcess", "number", "undefined"}}
    \cup {[ValidArgs EXCEPT !.runIf = v] : v \in {"function", "boolean", "null"}}
    \cup {[ValidArgs EXCEPT !.prerequisites = v] :
              v \in {"emptyArray", "zero", "string", "arrayOfNumbers"}}

\* the options are spread over the processor only when a function is passed
\* (lines 77-82); an object is taken as it is (here: without a runIf and
\* without prerequisites of its own)
OptionOf(args, option) ==
    IF args.processor = "function" THEN args[option] ELSE "undefined"

\* createProcessor (lines 72-111): the message of the error it throws, or
\* "none" when it returns the processor
CreateProcessor(args) ==
    IF args.nameType # "string" THEN "Processor 'name' must be a string."
    ELSE IF args.processor = "undefined" THEN "TypeError"
    ELSE IF args.processor = "number"
    THEN "Processors must be a function or an object with a 'process' function."
    ELSE IF args.processor = "objectWithoutProcess"
    THEN "Processor.process must be a function."
    ELSE IF OptionOf(args, "runIf") \notin {"undefined", "function"}
    THEN "Processor runIf must be a function."
    ELSE IF OptionOf(args, "prerequisites") \in {"string", "arrayOfNumbers"}
    THEN "Processor prerequisites must be an array of string names."
    ELSE "none"

\* the name argument as addInvalidProcessor records it: the string that
\* names processor `name`, or a number, which is the name of no processor
NameArg(name, args) == IF args.nameType = "string" THEN name ELSE 0 - name

\* register(name, processor, options) (lines 121-138), called between runs
\* with prerequisites that are absent or empty
CallRegister(name, args) ==
    LET message == CreateProcessor(args)
    IN /\ runState # "running"
       /\ entry' = "register"
       /\ outcome' = [kind |-> "register", name |-> NameArg(name, args),
                      threw |-> message]
       /\ IF message # "none"
          THEN /\ Len(invalidConfigs) < MaxInvalid
               /\ invalidConfigs' =
                      Append(invalidConfigs,
                             [processorName |-> NameArg(name, args), reason |-> message])
               /\ UNCHANGED <<processors, prerequisites>>
          ELSE /\ name \in DOMAIN prerequisites => prerequisites[name] = <<>>
               /\ name \notin Named(processors) => Len(Flat(processors)) < MaxProcs
               /\ processors' = RegisterProcessor(processors, name)
               /\ prerequisites' =
                      [p \in DOMAIN prerequisites \cup {name} |->
                          IF p = name THEN <<>> ELSE prerequisites[p]]
               /\ UNCHANGED invalidConfigs
       /\ UNCHANGED <<environment, composed, suspended, wrapper, response, cookieCalls, log,
                      runState, continueOnError, startingContext, runVars>>

\* a facade composed of one processor
InitCalls ==
    /\ Composed
    /\ NoCookies
    /\ processors = <<<<1>>>>
    /\ prerequisites = <<<<>>>>
    /\ throwables = {"Error"}

\* the names register is called with: the composed processor and another
CallNames == {1, 2}

\* the calls on a facade until a run of it begins: register with any
\* arguments, deregister, and start up to the step loop
NextCalls ==
    \/ \E name \in CallNames, args \in Arguments : CallRegister(name, args)
    \/ runState # "running" /\ \E processorName \in CallNames : Deregister(processorName)
    \/ \E sc \in StartingContexts : Start(sc, FALSE)

SpecCalls == InitCalls /\ [][NextCalls]_vars

\* ------------------------------------------------ compose, called twice
\* the facades composed: P (1) and Q (2), each of one processor with the
\* number of its facade as name
Facades == {1, 2}
PipelineOf(f) == <<<<f>>>>

\* the closure variable `processors` of facade f
StepListOf(f) == IF f = composed.self THEN processors ELSE composed.shelved[f]

\* compose(...) for the second facade: lines 543-549 assign its functions to
\* the keys of `this`, the object of the module that every call of compose
\* shares (compose is an arrow function)
Compose(f) ==
    /\ runState # "running"
    /\ f # composed.self
    /\ f \notin DOMAIN composed.shelved
    /\ composed' = [self |-> f,
                    shelved |-> [g \in {composed.self} |-> processors],
                    called |-> composed.called]
    /\ processors' = PipelineOf(f)
    /\ prerequisites' = [p \in {f} |-> <<>>]
    /\ invalidConfigs' = <<>>
    /\ UNCHANGED <<environment, suspended, caller, log, runState, continueOnError,
                   startingContext, outcome, runVars>>

\* f.register(name, fn) with a valid processor and no prerequisites: the
\* processor is pushed onto the step list of f (lines 130-135), and the
\* call returns __self (line 137), which is `this`
RegisterOn(f, name) ==
    /\ runState # "running"
    /\ f = composed.self \/ f \in DOMAIN composed.shelved
    /\ name \notin Facades
    /\ Len(Flat(StepListOf(f))) < MaxProcs
    /\ IF f = composed.self
       THEN /\ processors' = RegisterProcessor(processors, name)
            /\ prerequisites' =
                   [p \in DOMAIN prerequisites \cup {name} |-> <<>>]
            /\ composed' = [composed EXCEPT !.called = f]
       ELSE /\ composed' = [composed EXCEPT !.called = f,
                                            !.shelved[f] = RegisterProcessor(@, name)]
            /\ UNCHANGED <<processors, prerequisites>>
    /\ UNCHANGED <<invalidConfigs, environment, suspended, caller, log, runState,
                   continueOnError, startingContext, outcome, runVars>>

\* .start(startingContext, continueOnError) on the object register returned:
\* the start function found on `this`
StartReturned(sc, coe) ==
    /\ composed.called # 0
    /\ Start(sc, coe)

InitChain ==
    /\ Composed
    /\ NoCookies
    /\ processors = PipelineOf(1)
    /\ prerequisites = <<<<>>>>
    /\ throwables = {"Error"}

\* P is composed; Q may be composed; f.register(...).start(...) for either
NextChain ==
    \/ \E f \in Facades : Compose(f)
    \/ \E f \in Facades, name \in ProcessorNames : RegisterOn(f, name)
    \/ \E sc \in StartingContexts, coe \in BOOLEAN : StartReturned(sc, coe)
    \/ Run

SpecChain == InitChain /\ [][NextChain]_vars

\* ------------------------------------------ errors.js, called directly
MaxChars == 3      \* characters of a supplied status code
MaxErrors == 3     \* entries of an errorsFromProcessors array

\* a supplied responseInfo.statusCode: absent, a number (by the text
\* String(number) gives) or a string
Digits == {"0", "4", "5"}
Chars == Digits \cup {"-", ".", "x"}
Texts == UNION {[1..n -> Chars] : n \in 0..MaxChars}

\* the decimal text of an integer n >= 0, as String(n) gives it
Digit(d) ==
    CASE d = 0 -> "0" [] d = 1 -> "1" [] d = 2 -> "2" [] d = 3 -> "3"
      [] d = 4 -> "4" [] d = 5 -> "5" [] d = 6 -> "6" [] d = 7 -> "7"
      [] d = 8 -> "8" [] OTHER -> "9"
RECURSIVE Numeral(_)
Numeral(n) == IF n < 10 THEN <<Digit(n)>> ELSE Append(Numeral(n \div 10), Digit(n % 10))

\* the texts String(number) gives for a finite number: the numeral of the
\* whole part, a fraction that does not end in 0, a sign unless it is zero
AllDigits(text) == \A j \in DOMAIN text : text[j] \in Digits
IsWhole(text) == text # <<>> /\ AllDigits(text) /\ (Len(text) > 1 => text[1] # "0")
IsFraction(text) == text # <<>> /\ AllDigits(text) /\ text[Len(text)] # "0"
IsUnsigned(text) ==
    \/ IsWhole(text)
    \/ \E j \in DOMAIN text :
          /\ text[j] = "."
          /\ IsWhole(SubSeq(text, 1, j - 1))
          /\ IsFraction(SubSeq(text, j + 1, Len(text)))
IsNumberText(text) ==
    \/ IsUnsigned(text)
    \/ /\ text # <<>>
       /\ text[1] = "-"
       /\ IsUnsigned(Tail(text))
       /\ \E j \in 2..Len(text) : text[j] \notin {"0", "."}

Supplied(type, text) == [type |-> type, text |-> text]
StatusCodes ==
    {Supplied("undefined", <<>>)}
        \cup {Supplied("number", text) : text \in {t \in Texts : IsNumberText(t)}}
        \cup {Supplied("string", text) : text \in Texts}

\* parseInt(value, 10) (errors.js line 97): the sign and the leading digits
\* of String(value), NaN when there is no leading digit
DigitValue(c) == CASE c = "0" -> 0 [] c = "4" -> 4 [] OTHER -> 5
RECURSIVE LeadingDigits(_)
LeadingDigits(text) ==
    IF text = <<>> \/ Head(text) \notin Digits THEN <<>>
    ELSE <<Head(text)>> \o LeadingDigits(Tail(text))
RECURSIVE Decimal(_)
Decimal(digits) ==
    IF digits = <<>> THEN 0
    ELSE 10 * Decimal(SubSeq(digits, 1, Len(digits) - 1)) + DigitValue(digits[Len(digits)])
ParseInt(value) ==
    IF value.type = "undefined" THEN NaN
    ELSE LET negative == value.text # <<>> /\ Head(value.text) = "-"
             digits == LeadingDigits(IF negative THEN Tail(value.text) ELSE value.text)
         IN IF digits = <<>> THEN NaN
            ELSE IF negative THEN 0 - Decimal(digits) ELSE Decimal(digits)

\* the exceptions an errorsFromProcessors entry may hold
SomeExs ==
    {ErrorObj(MessageOf(1), "Error", NoResponseInfo, FALSE),
     ErrorObj(MessageOf(1), "Error", NoResponseInfo, TRUE),
     ErrorObj(Undefined, "string", NoResponseInfo, FALSE),
     ProcessorError(MessageOf(1), [NoResponseInfo EXCEPT !.statusCode = 400]),
     ProcessorError(MessageOf(1), [NoResponseInfo EXCEPT !.statusCode = 550])}
SomeErrors ==
    UNION {[1..n -> {[occurredIn |-> 1, message |-> ex.message, ex |-> ex] :
                        ex \in SomeExs}] : n \in 0..MaxErrors}

\* new ProcessorError(message, {statusCode}): `outcome` holds what was
\* supplied and the error constructed
NewProcessorError(statusCode) ==
    /\ outcome' = [kind |-> "new ProcessorError",
                   supplied |-> statusCode,
                   ex |-> ProcessorError(MessageOf(0),
                            [NoResponseInfo EXCEPT !.statusCode = ParseInt(statusCode)])]
    /\ UNCHANGED <<facade, environment, composed, suspended, caller, log, runState, continueOnError,
                   startingContext, runVars>>

\* new ProcessError(name, {}, errorsFromProcessors).allErrorsLogged()
CallAllErrorsLogged(errorsFromProcessors) ==
    /\ outcome' = [kind |-> "allErrorsLogged",
                   errorsFromProcessors |-> errorsFromProcessors,
                   returned |-> AllErrorsLogged(errorsFromProcessors)]
    /\ UNCHANGED <<facade, environment, composed, suspended, caller, log, runState, continueOnError,
                   startingContext, runVars>>

InitErrors ==
    /\ Composed
    /\ NoCookies
    /\ processors = <<<<1>>>>
    /\ prerequisites[1] = <<>>
    /\ throwables = {"Error"}

NextErrors ==
    \/ \E statusCode \in StatusCodes : NewProcessorError(statusCode)
    \/ \E errorsFromProcessors \in SomeErrors : CallAllErrorsLogged(errorsFromProcessors)

SpecErrors == InitErrors /\ [][NextErrors]_vars

\* ------------------------------------------------------------ properties
InPipeline == DOMAIN prerequisites
Members(j) == SeqToSet(processors[j])
NamesOf(run) == [j \in DOMAIN run |-> run[j].name]
OccurredIn(errs) == [j \in DOMAIN errs |-> errs[j].occurredIn]
FailedSet == {p \in InPipeline : pc[p] = "failed"}
NoParallelGroups == \A j \in DOMAIN processors : Len(processors[j]) = 1
FailedPrereq(p) ==
    \E j \in DOMAIN prerequisites[p] :
        /\ prerequisites[p][j] \in ProcessorNames
        /\ pc[prerequisites[p][j]] = "failed"

\* C1: when start resolves, every key that a member of a parallel group wrote
\* in place without returning anything, and that no other processor wrote, is
\* present with that member's value in the returned data and context,
\* whatever the completion order of the group was
C1_InPlaceWritesSurvive ==
    runState = "resolved" =>
        \A k \in Keys :
            inPlaceOnly[k] =>
                /\ k \in DOMAIN outcome.data
                /\ outcome.data[k] = foldData[k]
                /\ k \in DOMAIN outcome.context
                /\ outcome.context[k] = foldCtx[k]

\* C2: when a pipeline without parallel groups resolves without failures, the
\* processors settled in pipeline order and the returned data and context
\* equal the fold of the processors' effects in that order
C2_SequentialFold ==
    (runState = "resolved" /\ NoParallelGroups /\ errors = <<>>) =>
        /\ NamesOf(processorsRun) = Flat(processors)
        /\ outcome.data = foldData
        /\ outcome.context = foldCtx

C2_Witness ==
    /\ runState = "resolved"
    /\ NoParallelGroups
    /\ Len(processors) = 3
    /\ errors = <<>>
    /\ outcome.context = [k \in Keys |-> IF k = "k1" THEN 3 ELSE 2]
    /\ outcome.data = [k \in Keys |-> IF k = "k1" THEN 3 ELSE 2]

C7_InvalidFacadeAlwaysRejects ==
    invalidConfigs # <<>> =>
        /\ runState \in {"idle", "rejected"}
        /\ runState = "rejected" =>
              outcome = [kind |-> "InvalidProcessError",
                         configurationErrors |-> invalidConfigs]
        /\ \A p \in ProcessorNames :
              pc[p] = "idle" /\ runIfCalls[p] = 0 /\ processCalls[p] = 0
        /\ processorsRun = <<>>
        /\ errors = <<>>
        /\ \A o \in DOMAIN ctxHeap : ctxHeap[o] = EmptyObj /\ dataHeap[o] = EmptyObj

C7_Witness ==
    /\ runState = "rejected"
    /\ outcome.kind = "InvalidProcessError"
    /\ Len(outcome.configurationErrors) = 2
    /\ continueOnError

\* C8: compose records one configuration error for exactly the processors
\* that declare a prerequisite which is not the name of a processor of a
\* strictly earlier step, and its reason names exactly those prerequisites
EarlierNames(p) == UNION {Members(j) : j \in 1..(StepOf(p) - 1)}
Missing(p) == {q \in SeqToSet(prerequisites[p]) : q \notin EarlierNames(p)}
C8_PrerequisiteValidation ==
    /\ \A p \in InPipeline :
           Missing(p) # {} <=>
               \E j \in DOMAIN invalidConfigs : invalidConfigs[j].processorName = p
    /\ \A j \in DOMAIN invalidConfigs :
           /\ invalidConfigs[j].processorName \in InPipeline
           /\ \A jj \in 1..(j - 1) :
                  invalidConfigs[jj].processorName # invalidConfigs[j].processorName
           /\ SeqToSet(invalidConfigs[j].reason) =
                  Missing(invalidConfigs[j].processorName)

C8_Witness ==
    /\ processors = <<<<1, 2>>, <<3>>>>
    /\ prerequisites = <<<<>>, <<1>>, <<0>>>>
    /\ invalidConfigs = <<[processorName |-> 2, reason |-> <<1>>],
                          [processorName |-> 3, reason |-> <<0>>]>>

C10_FalsyRunIfHasNoEffect ==
    /\ [](\A p \in InPipeline :
             /\ processCalls[p] <= 1
             /\ pc[p] = "process" => processCalls[p] = 1
             /\ held[p].kind = "bypass" => processCalls[p] = 0)
    /\ [][\A p \in InPipeline :
             (pc[p] = "settling" /\ held[p].kind = "bypass" /\ pc'[p] # "settling") =>
                 /\ pc'[p] = "ok"
                 /\ processorsRun' = Append(processorsRun, [name |-> p, ok |-> TRUE])
                 /\ errors' = errors
                 /\ processCalls'[p] = 0
                 /\ dataHeap'[data'] = dataHeap[data]
                 /\ ctxHeap'[context'] = ctxHeap[context]]_vars

\* C11: every processor whose process or runIf threw or rejected has exactly
\* one entry in the run's errors, under its own name and with the message of
\* the entry's error (the error it threw, when it threw one), and exactly one
\* record in processorsRun, with ok false; the throw does not take the loop
\* out of the step (a processor is pending only while the loop awaits its
\* step); a valid facade's start rejects only with a ProcessError wrapping
\* the errors
EntriesOf(p) == {j \in DOMAIN errors : errors[j].occurredIn = p}
RecordsOf(p) == {j \in DOMAIN processorsRun : processorsRun[j].name = p}
C11_ThrowsBecomeFailures ==
    /\ \A p \in InPipeline :
          /\ pc[p] \in {"failed", "escaped"} =>
                /\ Cardinality(EntriesOf(p)) = 1
                /\ \A j \in EntriesOf(p) :
                      /\ errors[j].message = errors[j].ex.message
                      /\ pc[p] = "failed" => errors[j].ex.message = MessageOf(p)
                /\ Cardinality(RecordsOf(p)) = 1
                /\ \A j \in RecordsOf(p) : ~processorsRun[j].ok
          /\ (runState = "running" /\ pc[p] \in Pending) =>
                awaiting /\ p \in Members(i)
    /\ (runState = "rejected" /\ invalidConfigs = <<>>) =>
          /\ outcome.kind = "ProcessError"
          /\ outcome.errorsFromProcessors = errors

\* C12: on the failures of a run, getMostSevereProcessorError returns none
\* when no failure's error is a ProcessorError, and otherwise the error of
\* the first failure in list order among the ProcessorErrors with the highest
\* status code, in whatever order the failures were recorded
ProcessorErrorsIn(errs) == {j \in DOMAIN errs : errs[j].ex.type = "ProcessorError"}
StatusOf(errs, j) == errs[j].ex.responseInfo.statusCode
C12_MostSevereProcessorError ==
    LET found == GetMostSevereProcessorError(errors)
    IN IF ProcessorErrorsIn(errors) = {}
       THEN found = NoEx
       ELSE \E j \in ProcessorErrorsIn(errors) :
               /\ found = errors[j].ex
               /\ \A k \in ProcessorErrorsIn(errors) :
                     /\ StatusOf(errors, k) <= StatusOf(errors, j)
                     /\ StatusOf(errors, k) = StatusOf(errors, j) => j <= k

C12_Witness ==
    /\ processors = <<<<1, 2>>>>
    /\ Len(errors) = 2
    /\ errors[1].occurredIn = 2
    /\ StatusOf(errors, 1) = 550
    /\ StatusOf(errors, 2) = 400
    /\ GetMostSevereProcessorError(errors).message = MessageOf(2)

\* C13: when the run behind send ends with failures, send writes one error
\* response: with the status code, the errors payload and the text (or, for
\* want of a text, the message) of the most severe ProcessorError among the
\* failures, or, when no failure is a ProcessorError, status 500 with the
\* message of the ProcessError and no errors payload
SentForFailures ==
    /\ entry = "send"
    /\ wrapper = "resolved"
    /\ errors # <<>>
C13_ErrorResponse ==
    SentForFailures =>
        /\ Len(response) = 1
        /\ ~response[1].body.ok
        /\ IF ProcessorErrorsIn(errors) = {}
           THEN /\ response[1].status = 500
                /\ response[1].body.message = ProcessErrorMessage
                /\ response[1].body.errors = Undefined
           ELSE \E j \in ProcessorErrorsIn(errors) :
                   /\ \A k \in ProcessorErrorsIn(errors) :
                         /\ StatusOf(errors, k) <= StatusOf(errors, j)
                         /\ StatusOf(errors, k) = StatusOf(errors, j) => j <= k
                   /\ response[1].status = StatusOf(errors, j)
                   /\ response[1].body.errors = errors[j].ex.responseInfo.errors
                   /\ response[1].body.message =
                         IF errors[j].ex.responseInfo.text # Undefined
                         THEN errors[j].ex.responseInfo.text
                         ELSE errors[j].ex.message

C13_Witness ==
    /\ SentForFailures
    /\ continueOnError
    /\ Len(errors) = 2
    /\ errors[1].ex.type = "Error"
    /\ response[1].status = 400
    /\ response[1].body.message = Text(2, "text")
    /\ response[1].body.errors = Text(2, "errors")

\* C15: send on a facade with configuration errors invokes no processor,
\* writes one response, with status 500, the message of the
\* InvalidProcessError and the configuration errors as the errors payload,
\* and logs once
C15_InvalidFacadeSend ==
    (entry = "send" /\ invalidConfigs # <<>>) =>
        /\ \A p \in ProcessorNames :
              pc[p] = "idle" /\ runIfCalls[p] = 0 /\ processCalls[p] = 0
        /\ wrapper \in {"pending", "resolved"}
        /\ wrapper = "pending" => response = <<>> /\ log = EmptyBag
        /\ wrapper = "resolved" =>
              /\ response =
                    <<[status |-> 500,
                       body |-> [ok |-> FALSE,
                                 message |-> InvalidProcessErrorMessage,
                                 errors |-> [configurationErrors |-> invalidConfigs]]]>>
              /\ log = SetToBag({LogEntry(453, 0)})

C15_Witness ==
    /\ entry = "send"
    /\ wrapper = "resolved"
    /\ Len(processors) = 2
    /\ Len(invalidConfigs) = 2
    /\ response[1].body.errors.configurationErrors[2].processorName = 2
    /\ BagCardinality(log) = 1

\* C18: fireAndForget never rejects and writes no response; when the run
\* failed it logs the error once, unless the run's failures are all marked
\* as logged, and then it logs nothing; when the run did not fail it logs
\* nothing
RunFailed == runState = "rejected" \/ errors # <<>>
EveryFailureMarked ==
    errors # <<>> /\ \A j \in DOMAIN errors : errors[j].ex.doNotLog
ProcessLevelLogs == CopiesIn(LogEntry(453, 0), log) + CopiesIn(LogEntry(393, 0), log)
SilentWhenThrown(ex) ==
    \/ ex.type = "EpiError"
    \/ ex.type = "ProcessorError" /\ ex.responseInfo.statusCode < 500
C19_LoggedOnce ==
    /\ \A j \in DOMAIN errors :
          /\ CopiesIn(LogEntry(236, errors[j].occurredIn), log) + ProcessLevelLogs <= 1
          /\ SilentWhenThrown(errors[j].ex) =>
                CopiesIn(LogEntry(236, errors[j].occurredIn), log) = 0
    /\ (errors # <<>> /\ \A j \in DOMAIN errors : SilentWhenThrown(errors[j].ex)) =>
          ProcessLevelLogs = 0
    /\ (entry = "send" /\ wrapper = "resolved" /\ Len(errors) = 1
           /\ ~SilentWhenThrown(errors[1].ex)) =>
          BagCardinality(log) = 1
    /\ (errors # <<>> /\ ProcessLevelLogs > 0) =>
          \E j \in DOMAIN errors : ~errors[j].ex.doNotLog

RecordedNoFailure == runState = "resolved" /\ Len(outcome.errors) = 0

\* C14: every call of send makes exactly one response write: status 200
\* with ok = TRUE and the data when the run recorded no failure, and an error
\* status with ok = FALSE otherwise (with continueOnError too); no write is
\* made before send settles
C14_OneResponseWrite ==
    entry = "send" =>
        /\ wrapper = "pending" => response = <<>>
        /\ wrapper = "resolved" =>
              /\ Len(response) = 1
              /\ IF RecordedNoFailure
                 THEN /\ response[1].status = 200
                      /\ response[1].body.ok
                      /\ response[1].body.data.keys = outcome.data
                 ELSE /\ response[1].status >= 400
                      /\ ~response[1].body.ok

\* the call the cookie protocol asks for, for the cookie `name` of value c;
\* withOptions: c is taken for a value with options
OwnOrDefault(own, key) ==
    IF key \in DOMAIN own /\ own[key] # "undefined" THEN own[key]
    ELSE IF cookieOptions.defined /\ key \in DOMAIN cookieOptions.map
    THEN cookieOptions.map[key]
    ELSE own[key]
ExpectedOptions(c, withOptions) ==
    IF ~withOptions THEN cookieOptions
    ELSE IF ~cookieOptions.defined THEN c.options
    ELSE Options([key \in DOMAIN c.options.map \cup DOMAIN cookieOptions.map |->
                     OwnOrDefault(c.options.map, key)])
ExpectedCall(name, c, withOptions) ==
    LET v == IF withOptions THEN Primitive(c.value) ELSE c
    IN [fn |-> IF v = Primitive("null") THEN "clearCookie" ELSE "cookie",
        name |-> name,
        val |-> IF v = Primitive("null") THEN Primitive("undefined") ELSE v,
        options |-> ExpectedOptions(c, withOptions)]

\* send settled on a response with cookie and clearCookie, after a run
\* without failures
SentWithoutFailure ==
    /\ entry = "send"
    /\ wrapper = "resolved"
    /\ RecordedNoFailure
    /\ responseSupportsCookies

\* the calls made are exactly the expected ones, one for every name, and
\* the data written has no `cookies` and all its other keys
CookiesSentAs(WithOptions(_)) ==
    SentWithoutFailure =>
        /\ BagToSet(cookieCalls) =
              {ExpectedCall(name, outcome.cookies.contents[name],
                            WithOptions(outcome.cookies.contents[name])) :
                 name \in DOMAIN outcome.cookies.contents}
        /\ \A call \in BagToSet(cookieCalls) : cookieCalls[call] = 1
        /\ Len(response) = 1
        /\ response[1].body.data =
              DataObject(outcome.data, Cookies("undefined", EmptyObj))

ExactlyValueAndOptions(c) == c.object /\ c.keys = {"value", "options"}

BothDefined(c) ==
    ExactlyValueAndOptions(c) /\ c.value # "undefined" /\ c.options.defined

IsMapping(slot) == slot \in DOMAIN jars
CurrentCookies ==
    IF IsMapping(cookieSlot[data]) THEN jars[cookieSlot[data]] ELSE EmptyObj
Corrupting == CookieKinds \ {"setCookie"}
AloneInStep(p) == Len(processors[StepOf(p)]) = 1

\* at the step boundaries and at the end data.cookies is a mapping (absent
\* at most once the run is over), and the final cookies reach the response
CookiesAreAMapping ==
    /\ (runState = "running" /\ ~awaiting) => IsMapping(cookieSlot[data])
    /\ runState = "resolved" => outcome.cookies.is \in {"object", "undefined"}
    /\ SentWithoutFailure =>
          {call.name : call \in BagToSet(cookieCalls)} = DOMAIN outcome.cookies.contents

\* a processor that settles after deleting or replacing data.cookies is
\* recorded as ok, adds no error, and leaves a mapping, an empty one if the
\* run's data.cookies was no mapping; the cookie of a processor that has its
\* step for itself is in the mapping when it settles; a cookie leaves the
\* mapping only by a processor deleting or replacing data.cookies (or a
\* group member returning the data it was handed); and the run resolves with
\* the cookies of the mapping
ResetOnSettle ==
    /\ \A p \in ProcessorNames :
          (pc[p] = "settling" /\ pc'[p] = "ok" /\ held[p].kind \in Corrupting) =>
              /\ errors' = errors
              /\ processorsRun' = Append(processorsRun, [name |-> p, ok |-> TRUE])
              /\ runState' = runState
              /\ IsMapping(cookieSlot'[data'])
              /\ ~IsMapping(cookieSlot[data]) =>
                    /\ jars'[cookieSlot'[data']] = EmptyObj
                    /\ log' = log (+) SetToBag({LogEntry(186, p)})
    /\ \A p \in ProcessorNames :
          (pc[p] = "settling" /\ pc'[p] = "ok" /\ held[p].kind = "setCookie"
              /\ AloneInStep(p)) =>
              p \in DOMAIN CurrentCookies'
    /\ (runState = "running" /\ runState' = "running"
           /\ DOMAIN CurrentCookies \ DOMAIN CurrentCookies' # {}) =>
          \E q \in ProcessorNames :
              /\ pc[q] \in {"process", "settling"}
              /\ pc'[q] # pc[q]
              /\ \/ held[q].kind \in Corrupting
                 \/ held[q].kind = "returnGiven" /\ ~AloneInStep(q)
    /\ (runState = "running" /\ runState' = "resolved") =>
          outcome'.cookies.contents = CurrentCookies

EarlierSteps(q) == {w \in InPipeline : StepOf(w) < StepOf(q)}

\* C20: a write made by a processor of an earlier step is visible to every
\* processor of every later step: the data and the context a processor is
\* handed have every key whose last settled writer belongs to an earlier step
\* (for the context also the keys of the caller), and when the run resolves
\* the returned data has the keys of all the processors that added one, in
\* every completion order of the members of a group
C20_EarlierWritesVisible ==
    /\ \A q \in InPipeline :
          pc[q] \in {"process", "settling"} =>
              \A k \in Keys :
                  /\ (k \in DOMAIN foldData /\ foldData[k] \in EarlierSteps(q)) =>
                        k \in DOMAIN dataHeap[held[q].d]
                  /\ (k \in DOMAIN foldCtx
                         /\ foldCtx[k] \in EarlierSteps(q) \cup {StarterVal}) =>
                        k \in DOMAIN ctxHeap[held[q].c]
    /\ runState = "resolved" => DOMAIN foldData \subseteq DOMAIN outcome.data

\* the status codes whose numeral can be written with Digits
Codes == {n \in 0..(10^MaxChars - 1) : AllDigits(Numeral(n))}

\* text starts with zeros, then the numeral of n, then no further digit
Denotes(text, n) ==
    \E z \in 0..Len(text), k \in 1..Len(text) :
        /\ z < k
        /\ \A j \in 1..z : text[j] = "0"
        /\ SubSeq(text, z + 1, k) = Numeral(n)
        /\ k < Len(text) => text[k + 1] \notin Digits

\* C24: the status code of a constructed ProcessorError is a positive
\* integer: it is n when the supplied number or string reads as the integer
\* n > 0, it is 500 when the value is absent, starts with no digit, reads as
\* zero or is negative; doNotLog is set exactly when the status code is
\* below 500
C24_StatusCodeIsPositive ==
    outcome.kind = "new ProcessorError" =>
        LET supplied == outcome.supplied
            statusCode == outcome.ex.responseInfo.statusCode
        IN /\ statusCode \in Nat \ {0}
           /\ \A n \in Codes \ {0} :
                  (supplied.type # "undefined" /\ Denotes(supplied.text, n)) =>
                      statusCode = n
           /\ (\/ supplied.type = "undefined"
               \/ \A n \in Codes : ~Denotes(supplied.text, n)
               \/ Denotes(supplied.text, 0)) =>
                      statusCode = 500
           /\ outcome.ex.doNotLog <=> statusCode < 500

\* the string '404' gives the status code 404, which is not to be logged
C24_Witness ==
    /\ outcome.kind = "new ProcessorError"
    /\ outcome.supplied = Supplied("string", <<"4", "0", "4">>)
    /\ outcome.ex.responseInfo.statusCode = 404
    /\ outcome.ex.doNotLog

\* C29: allErrorsLogged returns true exactly when the error of every wrapped
\* failure is marked doNotLog (so for an empty list), false when the error of
\* one of them is not
C29_AllErrorsLogged ==
    outcome.kind = "allErrorsLogged" =>
        LET unmarked == {j \in DOMAIN outcome.errorsFromProcessors :
                            ~outcome.errorsFromProcessors[j].ex.doNotLog}
        IN outcome.returned = (Cardinality(unmarked) = 0)

\* a marked error followed by an unmarked one: false
C29_Witness ==
    /\ outcome.kind = "allErrorsLogged"
    /\ Len(outcome.errorsFromProcessors) = 2
    /\ outcome.errorsFromProcessors[1].ex.doNotLog
    /\ ~outcome.errorsFromProcessors[2].ex.doNotLog
    /\ ~outcome.returned


\* the names of the step list, and how often a name occurs in it
Registered(steps) == SeqToSet(Flat(steps))
Occurrences(steps, name) == Len(SelectSeq(Flat(steps), LAMBDA p : p = name))

\* C22: registering a name that is registered changes nothing of the facade:
\* every name occurs at most once in the step list, also a name that sits in
\* a parallel group, and a call that leaves the step list as it was leaves
\* the configuration errors (the validity of the facade) as they were
C22_RegisterExistingIsNoOp ==
    [][/\ \A name \in ProcessorNames : Occurrences(processors', name) <= 1
       /\ processors' = processors => invalidConfigs' = invalidConfigs]_vars

\* C23: when deregister removes X and a processor that remains declares X,
\* the facade has a configuration error naming X as missing; start begins no
\* run while a processor of the step list declares a prerequisite that is
\* not registered
C23_DeregisterRevalidates ==
    [][/\ \A X \in Registered(processors) \ Registered(processors') :
              (\E p \in Registered(processors') : X \in SeqToSet(prerequisites'[p])) =>
                  \E j \in DOMAIN invalidConfigs' : X \in SeqToSet(invalidConfigs'[j].reason)
       /\ (runState # "running" /\ runState' = "running") =>
              \A p \in Registered(processors) :
                  SeqToSet(prerequisites[p]) \subseteq Registered(processors)]_vars


\* C25: a run keeps the data object and the context object start created
\* (object 0 of each heap): the closure variables never refer to another
\* object, and every pending call of process holds these two objects
C25_OneCanonicalObject ==
    /\ runState = "running" => data = 0 /\ context = 0
    /\ \A q \in InPipeline :
           pc[q] \in {"process", "settling"} => held[q].d = 0 /\ held[q].c = 0

\* k has the same value, or is absent, in both objects
SameAt(k, before, after) ==
    /\ k \in DOMAIN after <=> k \in DOMAIN before
    /\ k \in DOMAIN before => after[k] = before[k]

\* the merge of what p returned: every key of `returned` has the value
\* returned, every other key is as it was
Overlaid(before, returned, after) ==
    \A k \in Keys :
        IF k \in DOMAIN returned
        THEN k \in DOMAIN after /\ after[k] = returned[k]
        ELSE SameAt(k, before, after)

\* C26: when a member of a step settles with a result, every key of the data
\* (context) it returned gets the value it returned, whatever a member that
\* settled before gave it, and the keys it did not return are untouched: the
\* value of a key two members return is that of the member that settles last
C26_LastSettledWins ==
    [][\A p \in ProcessorNames :
          (pc[p] = "settling" /\ pc'[p] = "ok" /\ HasResult(p)) =>
              /\ Overlaid(dataHeap[data], ResultOf(p, dataHeap, held[p].d),
                          dataHeap'[data'])
              /\ Overlaid(ctxHeap[context], ResultOf(p, ctxHeap, held[p].c),
                          ctxHeap'[context'])]_vars

\* both members of the group [1, 2] have been merged, 2 last and with a
\* result; k1, which 1 wrote too, has the value of 2
C26_Witness ==
    /\ processors = <<<<1, 2>>>>
    /\ NamesOf(processorsRun) = <<1, 2>>
    /\ pc[1] = "ok" /\ pc[2] = "ok"
    /\ data = 2
    /\ dataHeap[data] = [k \in {"k1"} |-> 2]
    /\ "k1" \in DOMAIN ctxHeap[context] /\ ctxHeap[context]["k1"] = 2

\* C27: when a member that returns the objects it was handed is merged, the
\* keys it has not written itself keep the value they have in the data and
\* the context of the run
C27_ReturnGivenKeepsSiblingWrites ==
    [][\A p \in ProcessorNames :
          (pc[p] = "settling" /\ pc'[p] = "ok"
              /\ held[p].kind \in {"returnGiven", "inPlaceReturn"}) =>
              \A k \in Keys :
                  Writes(p, k) \/ /\ SameAt(k, dataHeap[data], dataHeap'[data'])
                                  /\ SameAt(k, ctxHeap[context], ctxHeap'[context'])]_vars

\* s is t or the beginning of t
IsPrefix(s, t) == Len(s) <= Len(t) /\ SubSeq(t, 1, Len(s)) = s

\* C28: every step of a run leaves the entries of the error list in place
\* and in order, and the list handed back when the run settles has them all
C28_ErrorListOnlyGrows ==
    [][runState = "running" =>
          /\ IsPrefix(errors, errors')
          /\ runState' = "resolved" => outcome'.errors = errors
          /\ runState' = "rejected" => outcome'.errorsFromProcessors = errors]_vars


\* C30: when the run ends with an empty cookies mapping the data start
\* returns has no cookies key, and when the mapping has entries start returns
\* it with these entries; the data send writes has no cookies key
C30_EmptyCookiesRemoved ==
    /\ runState = "resolved" =>
           outcome.cookies = IF DOMAIN CurrentCookies = {}
                             THEN Cookies("undefined", EmptyObj)
                             ELSE Cookies("object", CurrentCookies)
    /\ \A j \in DOMAIN response :
           response[j].status = 200 => response[j].body.data.cookies.is = "undefined"

\* a run of two processors that set no cookie, through send: the data
\* returned and the data sent have no cookies key
C30_Witness ==
    /\ SentWithoutFailure
    /\ NamesOf(processorsRun) = <<1, 2>>
    /\ IsMapping(cookieSlot[data]) /\ DOMAIN CurrentCookies = {}
    /\ outcome.cookies.is = "undefined"
    /\ Len(response) = 1
    /\ response[1].status = 200
    /\ response[1].body.data.cookies.is = "undefined"


\* what the closure variables v of an invocation show is of that invocation:
\* the completed-steps log has the processors it has settled, once each; the
\* error list has the failures of that log, in order; a key of its data or
\* context has the value of a processor it has invoked (or of its starting
\* context); a processor is skipped exactly for a prerequisite that failed
\* in its own log; data.cookies is no mapping only while one of its own
\* processors has replaced it; and what it settles with is its own data,
\* context and error list
OwnRun(v) ==
    LET run == v.processorsRun
        failures == SelectSeq(run, LAMBDA e : ~e.ok)
        own(obj, others) == \A k \in DOMAIN obj :
                                \/ obj[k] \in ProcessorNames /\ v.pc[obj[k]] \in {"settling", "ok"}
                                \/ k \in DOMAIN others /\ obj[k] = others[k]
    IN /\ \A j \in DOMAIN run :
              /\ v.pc[run[j].name] = (IF run[j].ok THEN "ok" ELSE "failed")
              /\ \A jj \in 1..(j - 1) : run[jj].name # run[j].name
       /\ \A p \in ProcessorNames : v.pc[p] \in {"ok", "failed"} =>
              \E j \in DOMAIN run : run[j].name = p
       /\ [j \in DOMAIN v.errors |-> v.errors[j].occurredIn] =
              [j \in DOMAIN failures |-> failures[j].name]
       /\ own(v.dataHeap[v.data], EmptyObj)
       /\ own(v.ctxHeap[v.context], v.startingContext)
       /\ \A p \in DOMAIN prerequisites :
              /\ v.pc[p] = "skipped" =>
                     \E j \in DOMAIN prerequisites[p] : v.pc[prerequisites[p][j]] = "failed"
              /\ v.pc[p] \notin {"idle", "skipped"} =>
                     \A j \in DOMAIN prerequisites[p] : v.pc[prerequisites[p][j]] # "failed"
       /\ ~IsPlainObject(v.cookieSlot[v.data]) =>
              \E p \in ProcessorNames :
                  v.pc[p] = "settling" /\ v.held[p].kind \in CookieKinds
       /\ v.runState = "resolved" =>
              /\ v.outcome.errors = v.errors
              /\ v.outcome.data = v.dataHeap[v.data]
              /\ v.outcome.context = v.ctxHeap[v.context]
       /\ v.runState = "rejected" => v.outcome.errorsFromProcessors = v.errors

\* a step of one invocation leaves the closure variables of the other as
\* they are; they change only when the other invocation goes on
OtherUntouched ==
    suspended' # suspended => suspended' = Invocation /\ Invocation' = Resumed

\* C21: two invocations of start on a facade, one after the other or
\* interleaved at their awaits, share no run state: each has its own data,
\* context, error list and completed-steps log, and the failures, keys,
\* cookie resets and skipped processors of one are not in the other
C21_InvocationsShareNoRunState ==
    /\ [](OwnRun(Invocation) /\ (suspended # NoInvocation => OwnRun(suspended)))
    /\ [][OtherUntouched]_vars

\* both invocations are in progress: in one processor 1 failed and 2 was
\* skipped, in the other 1 wrote its key and 2 is running
C21_Witness ==
    /\ suspended # NoInvocation
    /\ suspended.runState = "running"
    /\ suspended.pc[1] = "failed" /\ suspended.pc[2] = "skipped"
    /\ Len(suspended.errors) = 1
    /\ runState = "running"
    /\ pc[1] = "ok" /\ pc[2] = "process"
    /\ errors = <<>>
    /\ NamesOf(processorsRun) = <<1>>
    /\ DOMAIN dataHeap[data] # {}


\* the state of a run that start has just created
FreshRun ==
    /\ dataHeap[data] = EmptyObj
    /\ IsPlainObject(cookieSlot[data]) /\ jars[cookieSlot[data]] = EmptyObj
    /\ \A k \in DOMAIN startingContext \ {"processName", "errors"} :
           k \in DOMAIN ctxHeap[context] /\ ctxHeap[context][k] = startingContext[k]
    /\ DOMAIN ctxHeap[context] \subseteq DOMAIN startingContext \ {"processName", "errors"}
    /\ errors = <<>>
    /\ processorsRun = <<>>

\* C31: a run starts from data = {cookies: {}} and a context that has the
\* caller's keys, except that processName and errors are those of the run
\* (the error list is empty); no step of a run changes the caller's starting
\* context, and the ProcessError of a failed run carries it
C31_FreshRunState ==
    [][/\ (runState # "running" /\ runState' = "running") => FreshRun'
       /\ runState = "running" => startingContext' = startingContext
       /\ (runState' = "rejected" /\ outcome'.kind = "ProcessError") =>
              outcome'.startingContext = startingContext]_vars

\* a run started with a context that has keys named processName and errors,
\* whose processor has written its key, failed with a ProcessError
C31_Witness ==
    /\ runState = "rejected"
    /\ outcome.kind = "ProcessError"
    /\ outcome.startingContext = [k \in {"k1", "processName", "errors"} |-> StarterVal]
    /\ Len(errors) = 1
    /\ \E k \in DOMAIN ctxHeap[context] : ctxHeap[context][k] \in ProcessorNames


\* the members of the step the loop awaits that have not settled
Unsettled ==
    IF runState = "running" /\ awaiting
    THEN {p \in SeqToSet(processors[i]) : pc[p] \in {"runIf", "process", "settling"}}
    ELSE {}

\* C32: a run whose runIf and process calls all settle ends, resolved or
\* rejected, and the loop never goes back to an earlier step; as long as a
\* member of the awaited step has not settled, the loop stays at that step
\* and the run stays in flight
C32_SettlesOrWaits ==
    /\ (runState = "running") ~> (runState \in {"resolved", "rejected"})
    /\ [][/\ (runState = "running" /\ runState' = "running") => i' >= i
          /\ \A p \in Unsettled :
                pc'[p] = pc[p] => (runState' = "running" /\ awaiting' /\ i' = i)]_vars


\* C33: while a step is awaited, the runIf of every member that passed the
\* prerequisite filter has been called once and that of a filtered member
\* not at all, and a member whose runIf is pending can settle whatever the
\* state of its siblings
C33_GroupInitiatedTogether ==
    (runState = "running" /\ awaiting) =>
        \A p \in SeqToSet(processors[i]) :
            /\ ~SkipForPrereq(p) =>
                   /\ runIfCalls[p] = 1
                   /\ pc[p] \notin {"idle", "skipped"}
            /\ SkipForPrereq(p) => runIfCalls[p] = 0 /\ pc[p] = "skipped"
            /\ pc[p] = "runIf" => ENABLED RunIfSettles(p)

\* the second member of a group has completed and its write is on the data
\* of the run, while the runIf of the first member is pending
C33_Witness ==
    /\ runState = "running" /\ awaiting
    /\ Len(processors[i]) = 2
    /\ pc[processors[i][1]] = "runIf"
    /\ pc[processors[i][2]] = "ok"
    /\ \E k \in DOMAIN dataHeap[data] : dataHeap[data][k] = processors[i][2]


\* the processors whose step has been initiated in the run in flight
Initiated ==
    {p \in InPipeline : StepOf(p) < i \/ (StepOf(p) = i /\ awaiting)}

\* C34: a processor whose step was reached is skipped exactly when one of its
\* declared prerequisites ran and failed in this run; a prerequisite that
\* was skipped itself or bypassed by its runIf does not make it skipped
C34_SkipOnlyForFailedPrereq ==
    runState = "running" =>
        \A p \in Initiated :
            /\ pc[p] = "skipped" <=> FailedPrereq(p)
            /\ ~FailedPrereq(p) => p \in SeqToSet(NamesOf(processorsRun)) \/ pc[p] \in Pending

\* a chain of three: the first failed, the second was skipped for it, the
\* third, which requires the second, completed
C34_Witness ==
    \E a, b, c \in InPipeline :
        /\ pc[a] = "failed"
        /\ pc[b] = "skipped" /\ prerequisites[b] = <<a>>
        /\ pc[c] = "ok" /\ prerequisites[c] = <<b>>

\* C35: no processor runs twice in a run, and a run that ends without
\* failures has run every processor that was in the step list when it
\* started, once and in the order of the steps, also when register or
\* deregister was called during the run
C35_EachStepOnce ==
    /\ \A p \in ProcessorNames : Occurrences(<<NamesOf(processorsRun)>>, p) <= 1
    /\ (runState = "resolved" /\ errors = <<>>) =>
           SelectSeq(NamesOf(processorsRun),
                     LAMBDA p : p \in Registered(StepsAtStart)) = Flat(StepsAtStart)


\* start was called in the step
StartWasCalled ==
    /\ outcome' # outcome
    /\ outcome'.kind \in {"none", "InvalidProcessError"}

C37_DeregisterClearsErrors ==
    [][\A n \in CallNames :
          (n \in Registered(processors) /\ processors' # processors
           /\ Len(Flat(processors')) < Len(Flat(processors))
           /\ Occurrences(processors', n) < Occurrences(processors, n)) =>
              /\ n \notin Registered(processors')
              /\ \A j \in DOMAIN invalidConfigs' : invalidConfigs'[j].processorName # n]_vars


\* C38: the run started through facade.register(...).start(...) iterates the
\* step list of that facade, with the processor just registered, and runs
\* the processor of no other facade, whatever was composed before or after
C38_ChainRunsOwnPipeline ==
    (runState = "running" /\ composed.called # 0) =>
        /\ processors = StepListOf(composed.called)
        /\ \A j \in DOMAIN processorsRun :
               processorsRun[j].name \in Registered(StepListOf(composed.called))


\* the entries of the error list made for an error the step loop threw
SchedulerFailures == {j \in DOMAIN errors : errors[j].ex.message = MessageOf(0)}

\* C39: when send has settled after an error thrown in the step loop, one
\* response was written, with status 500, the error was logged once, it is
\* recorded under the name of no processor, and no processor of the run is
\* still pending
C39_SchedulerErrorEndsRun ==
    (entry = "send" /\ wrapper = "resolved" /\ SchedulerFailures # {}) =>
        /\ Len(response) = 1 /\ response[1].status = 500
        /\ BagCardinality(log) = 1
        /\ \A j \in SchedulerFailures : errors[j].occurredIn \notin ProcessorNames
        /\ \A p \in ProcessorNames : pc[p] \notin Pending


\* C40: when send has settled after a run in which a failure that is not a
\* ProcessorError was recorded, the response it wrote is an error of the
\* server (status 500, or the higher status of a ProcessorError), never the
\* 4xx status of another failure of the run
C40_UnrecognizedFailureIs500 ==
    (entry = "send" /\ wrapper = "resolved"
     /\ \E j \in DOMAIN errors : errors[j].ex.type # "ProcessorError") =>
        /\ Len(response) = 1
        /\ response[1].status >= 500


====
